---- MODULE Spec2Model ----
(***************************************************************************)
(* Virtual file system layer of lib/internal/vfs: the path router, the     *)
(* VirtualFileSystem instance (entry tree, mount/overlay activation, the   *)
(* synchronous query surface) and the process-wide hook registry of        *)
(* module_hooks.js that multiplexes Module._stat, fs.readFileSync,         *)
(* fs.realpathSync, fs.lstatSync, fs.statSync and the module resolve/load  *)
(* hooks over the active VFS instances.                                    *)
(*                                                                         *)
(* Strings are sequences of one-character strings, so that prefix tests    *)
(* (StringPrototypeStartsWith) are computed character by character.        *)
(* POSIX host: path.sep is "/" (the backslash branch of normalizePath is   *)
(* not taken).                                                             *)
(***************************************************************************)
EXTENDS Integers, Sequences, FiniteSets, TLC

VARIABLES kRoot, kMountPoint, kMounted, kOverlay, kFallthrough,
          activeVFSList, hooksInstalled, originals, bindings, last,
          tickQueue, cachedSeaVfs, seaInstances, seaBinding, connection, pipeline

vars == <<kRoot, kMountPoint, kMounted, kOverlay, kFallthrough,
          activeVFSList, hooksInstalled, originals, bindings, last,
          tickQueue, cachedSeaVfs, seaInstances, seaBinding, connection, pipeline>>

(***************************************************************************)
(* String primitives                                                       *)
(***************************************************************************)
StartsWith(s, t) == Len(t) <= Len(s) /\ SubSeq(s, 1, Len(t)) = t

EndsWith(s, t) == Len(t) <= Len(s) /\ SubSeq(s, Len(s) - Len(t) + 1, Len(s)) = t

Slice(s, from) == SubSeq(s, from + 1, Len(s))

RECURSIVE SplitSlash(_)
SplitSlash(s) ==
  IF \A i \in 1..Len(s) : s[i] # "/" THEN <<s>>
  ELSE LET k == CHOOSE i \in 1..Len(s) :
                  s[i] = "/" /\ \A j \in 1..(i - 1) : s[j] # "/"
       IN <<SubSeq(s, 1, k - 1)>> \o SplitSlash(SubSeq(s, k + 1, Len(s)))

RECURSIVE JoinSlash(_)
JoinSlash(segs) ==
  IF Len(segs) = 0 THEN <<>>
  ELSE IF Len(segs) = 1 THEN segs[1]
  ELSE segs[1] \o <<"/">> \o JoinSlash(Tail(segs))

LastIndexOfSlash(s) ==
  IF \A i \in 1..Len(s) : s[i] # "/" THEN -1
  ELSE (CHOOSE i \in 1..Len(s) :
          s[i] = "/" /\ \A j \in (i + 1)..Len(s) : s[j] # "/") - 1

(***************************************************************************)
(* path.resolve / path.dirname of the host (POSIX)                         *)
(***************************************************************************)
Cwd == <<"/", "a">>

RECURSIVE NormalizeSegments(_, _)
NormalizeSegments(segs, acc) ==
  IF Len(segs) = 0 THEN acc
  ELSE LET s == Head(segs) IN
       IF s = <<>> \/ s = <<".">> THEN NormalizeSegments(Tail(segs), acc)
       ELSE IF s = <<".", ".">>
            THEN NormalizeSegments(Tail(segs),
                   IF Len(acc) = 0 THEN acc ELSE SubSeq(acc, 1, Len(acc) - 1))
            ELSE NormalizeSegments(Tail(segs), Append(acc, s))

PathResolve2(base, p) ==
  LET abs == IF Len(p) > 0 /\ p[1] = "/" THEN p
             ELSE IF Len(p) = 0 THEN base
             ELSE base \o <<"/">> \o p
  IN <<"/">> \o JoinSlash(NormalizeSegments(SplitSlash(abs), <<>>))

PathResolve(p) == PathResolve2(Cwd, p)

PathDirname(p) ==
  LET k == LastIndexOfSlash(p) IN
  IF k = -1 THEN <<".">>
  ELSE IF k = 0 THEN <<"/">>
  ELSE SubSeq(p, 1, k)

(***************************************************************************)
(* path.resolve of a Windows host (path.win32.resolve of one argument that *)
(* is not a UNC path): the device is the argument's or the current one,    *)
(* a relative tail is appended to the current directory of that drive,     *)
(* both separators split, and the result is joined with backslashes.       *)
(***************************************************************************)
WinCwdDevice == <<"C", ":">>

WinCwdTail == <<"a">>

DriveLetters == {"C"}

ToSlashes(s) == [i \in 1..Len(s) |-> IF s[i] = "\\" THEN "/" ELSE s[i]]

ToBackslashes(s) == [i \in 1..Len(s) |-> IF s[i] = "/" THEN "\\" ELSE s[i]]

HasDevice(p) == Len(p) >= 2 /\ p[1] \in DriveLetters /\ p[2] = ":"

Win32Resolve(p) ==
  LET device == IF HasDevice(p) THEN SubSeq(p, 1, 2) ELSE <<>>
      rest == IF HasDevice(p) THEN Slice(p, 2) ELSE p
      isAbsolute == Len(rest) > 0 /\ rest[1] \in {"/", "\\"}
      resolvedDevice == IF device = <<>> THEN WinCwdDevice ELSE device
      base == IF resolvedDevice = WinCwdDevice THEN WinCwdTail ELSE <<>>
      tail == IF isAbsolute THEN rest ELSE base \o <<"/">> \o rest
  IN resolvedDevice \o <<"\\">>
       \o ToBackslashes(JoinSlash(NormalizeSegments(SplitSlash(ToSlashes(tail)), <<>>)))

(***************************************************************************)
(* router.js                                                               *)
(***************************************************************************)
normalizePath(inputPath) ==
  LET normalized == PathResolve(inputPath) IN
  IF Len(normalized) > 1 /\ EndsWith(normalized, <<"/">>)
  THEN SubSeq(normalized, 1, Len(normalized) - 1)
  ELSE normalized

\* normalizePath on a host whose path.sep is sep.
normalizePathOn(sep, inputPath) ==
  LET resolved == IF sep = "\\" THEN Win32Resolve(inputPath) ELSE PathResolve(inputPath)
      normalized == IF sep = "\\" THEN ToSlashes(resolved) ELSE resolved
  IN IF Len(normalized) > 1 /\ EndsWith(normalized, <<"/">>)
     THEN SubSeq(normalized, 1, Len(normalized) - 1)
     ELSE normalized

splitPath(normalizedPath) ==
  IF normalizedPath = <<"/">> THEN <<>>
  ELSE SplitSlash(Slice(normalizedPath, 1))

NullPath == <<>>

getParentPath(normalizedPath) ==
  IF normalizedPath = <<"/">> THEN NullPath
  ELSE LET lastSlash == LastIndexOfSlash(normalizedPath) IN
       IF lastSlash = 0 THEN <<"/">>
       ELSE SubSeq(normalizedPath, 1, lastSlash)

getBaseName(normalizedPath) ==
  Slice(normalizedPath, LastIndexOfSlash(normalizedPath) + 1)

\* Mutant: the separator after the mount point is not required.
isUnderMountPoint_NoSeparator(normalizedPath, mountPoint) ==
  IF normalizedPath = mountPoint THEN TRUE
  ELSE StartsWith(normalizedPath, mountPoint)

isUnderMountPoint(normalizedPath, mountPoint) ==
  IF normalizedPath = mountPoint THEN TRUE
  ELSE StartsWith(normalizedPath, mountPoint \o <<"/">>)

getRelativePath(normalizedPath, mountPoint) ==
  IF normalizedPath = mountPoint THEN <<"/">>
  ELSE Slice(normalizedPath, Len(mountPoint))

(***************************************************************************)
(* entries: VirtualFile / VirtualDirectory                                 *)
(***************************************************************************)
NoEntries == [n \in {} |-> 0]

Null == [kind |-> "null", content |-> "-", entries |-> NoEntries]

VirtualFile(content) == [kind |-> "file", content |-> content, entries |-> NoEntries]

VirtualDirectory(entries) == [kind |-> "dir", content |-> "-", entries |-> entries]

isDirectory(entry) == entry.kind = "dir"

getEntry(dir, name) == IF name \in DOMAIN dir.entries THEN dir.entries[name] ELSE Null

addEntry(dir, name, entry) ==
  VirtualDirectory([n \in (DOMAIN dir.entries) \cup {name} |->
                      IF n = name THEN entry ELSE dir.entries[n]])

removeEntry(dir, name) ==
  VirtualDirectory([n \in (DOMAIN dir.entries) \ {name} |-> dir.entries[n]])

RECURSIVE CountEntries(_)
CountEntries(entry) ==
  IF entry.kind # "dir" THEN 0
  ELSE LET RECURSIVE Sum(_)
           Sum(S) == IF S = {} THEN 0
                     ELSE LET n == CHOOSE x \in S : TRUE
                          IN 1 + CountEntries(entry.entries[n]) + Sum(S \ {n})
       IN Sum(DOMAIN entry.entries)

(***************************************************************************)
(* Instances and inputs                                                    *)
(***************************************************************************)
VFSIds == {1, 2, 3}

RoutedVFS == {1, 2}

MaxEntries == 2

AsyncOnly == "async-only"

\* Content of a file whose provider returns a promise that rejects.
Rejecting == "rejecting"

FileInputs == {[p |-> <<"/", "a", "/", "b">>, content |-> "data"],
               [p |-> <<"/", "b">>, content |-> "data"],
               [p |-> <<"/", "a", "/", "b">>, content |-> AsyncOnly]}

DirPaths == {<<"/", "a">>}

RemovePaths == {<<"/">>, <<"/", "a">>, <<"/", "a", "/", "b">>, <<"/", "b">>}

MountPrefixes == {<<"/", "a", "/">>, <<"/">>}

QueryPaths == {<<"/">>, <<"/", "a">>, <<"/", "a", "/", "b">>,
               <<"/", "a", "/", "b", "/">>, <<"/", "a", "b">>}

Arg(t, p, options, parentURL, format) ==
  [t |-> t, p |-> p, options |-> options, parentURL |-> parentURL, format |-> format]

StringArg(p) == Arg("string", p, "none", <<>>, "none")

StatArgs == {StringArg(p) : p \in QueryPaths}

FsArgs == StatArgs \cup {Arg("url", <<"/", "a", "/", "b">>, "none", <<>>, "none"),
                         Arg("fd", <<>>, "none", <<>>, "none")}

ReadArgs == FsArgs \cup {Arg("string", <<"/", "a", "/", "b">>, "utf8", <<>>, "none")}

FileUrlAB == <<"f", "i", "l", "e", ":", "/", "/", "/", "a", "/", "b">>

FileUrlA == <<"f", "i", "l", "e", ":", "/", "/", "/", "a">>

NodeFs == <<"n", "o", "d", "e", ":", "f", "s">>

ResolveArgs == {StringArg(NodeFs), StringArg(FileUrlAB), StringArg(<<"/", "a", "/", "b">>),
                StringArg(<<"/", "a">>), StringArg(<<"/", "a", "b">>),
                StringArg(<<".", "/", "b">>),
                Arg("string", <<".", "/", "b">>, "none", FileUrlAB, "none"),
                StringArg(<<"b">>)}

LoadArgs == {StringArg(NodeFs), StringArg(FileUrlAB), StringArg(FileUrlA),
             StringArg(<<"h", "t", "t", "p", ":">>),
             Arg("string", FileUrlAB, "none", <<>>, "module")}

(***************************************************************************)
(* virtual_fs.js: path resolution and routing predicate                    *)
(***************************************************************************)
RECURSIVE WalkSegments(_, _)
WalkSegments(current, segments) ==
  IF Len(segments) = 0 THEN current
  ELSE IF ~isDirectory(current) THEN Null
  ELSE LET entry == getEntry(current, Head(segments)) IN
       IF entry = Null THEN Null
       ELSE WalkSegments(entry, Tail(segments))

\* Mutant: the root of an empty tree does not resolve.
resolveEntry_EmptyRootAbsent(v, inputPath) ==
  LET normalized == normalizePath(inputPath)
      root == IF kRoot[v] = VirtualDirectory(NoEntries) THEN Null ELSE kRoot[v]
  IN
  IF kMounted[v] /\ kMountPoint[v] # NullPath
  THEN IF ~isUnderMountPoint(normalized, kMountPoint[v]) THEN Null
       ELSE LET vfsPath == getRelativePath(normalized, kMountPoint[v]) IN
            IF vfsPath = <<"/">> THEN root
            ELSE WalkSegments(kRoot[v], splitPath(vfsPath))
  ELSE IF normalized = <<"/">> THEN root
       ELSE WalkSegments(kRoot[v], splitPath(normalized))

resolveEntry(v, inputPath) ==
  LET normalized == normalizePath(inputPath) IN
  IF kMounted[v] /\ kMountPoint[v] # NullPath
  THEN IF ~isUnderMountPoint(normalized, kMountPoint[v]) THEN Null
       ELSE LET vfsPath == getRelativePath(normalized, kMountPoint[v]) IN
            IF vfsPath = <<"/">> THEN kRoot[v]
            ELSE WalkSegments(kRoot[v], splitPath(vfsPath))
  ELSE IF normalized = <<"/">> THEN kRoot[v]
       ELSE WalkSegments(kRoot[v], splitPath(normalized))

\* Mutant: the overlay branch is missing.
shouldHandle_NoOverlayBranch(v, inputPath) ==
  IF ~kMounted[v] /\ ~kOverlay[v] THEN FALSE
  ELSE LET normalized == normalizePath(inputPath) IN
       IF kMounted[v] /\ kMountPoint[v] # NullPath
       THEN isUnderMountPoint(normalized, kMountPoint[v])
       ELSE FALSE

shouldHandle(v, inputPath) ==
  IF ~kMounted[v] /\ ~kOverlay[v] THEN FALSE
  ELSE LET normalized == normalizePath(inputPath) IN
       IF kOverlay[v] THEN resolveEntry(v, normalized) # Null
       ELSE IF kMounted[v] /\ kMountPoint[v] # NullPath
            THEN isUnderMountPoint(normalized, kMountPoint[v])
            ELSE FALSE

\* Mutant: the getter reads the overlay flag.
isMounted_ReadsOverlay(v) == kOverlay[v]

isMounted(v) == kMounted[v]

(***************************************************************************)
(* virtual_fs.js: synchronous query surface.  A result is                  *)
(* [ok |-> TRUE, val |-> value] or [ok |-> FALSE, val |-> error].          *)
(***************************************************************************)
Return(val) == [ok |-> TRUE, val |-> val]

Throw(err) == [ok |-> FALSE, val |-> err]

createENOENT(syscall, path) == [t |-> "error", code |-> "ENOENT", syscall |-> syscall, path |-> path]

createEISDIR(syscall, path) == [t |-> "error", code |-> "EISDIR", syscall |-> syscall, path |-> path]

createENOTDIR(syscall, path) == [t |-> "error", code |-> "ENOTDIR", syscall |-> syscall, path |-> path]

ContentUnavailable == [t |-> "error", code |-> "ContentUnavailable", syscall |-> "-", path |-> <<>>]

ProviderError == [t |-> "error", code |-> "ProviderError", syscall |-> "-", path |-> <<>>]

getStats(entry) == [t |-> "stats", dir |-> isDirectory(entry)]

getContentSync(entry) ==
  IF entry.content \in {AsyncOnly, Rejecting} THEN Throw(ContentUnavailable)
  ELSE Return(entry.content)

existsSync(v, filePath) == resolveEntry(v, filePath) # Null

\* Mutant: the error carries the tag of readFileSync.
statSync_TaggedOpen(v, filePath) ==
  LET entry == resolveEntry(v, filePath) IN
  IF entry = Null THEN Throw(createENOENT("open", filePath))
  ELSE Return(getStats(entry))

statSync(v, filePath) ==
  LET entry == resolveEntry(v, filePath) IN
  IF entry = Null THEN Throw(createENOENT("stat", filePath))
  ELSE Return(getStats(entry))

lstatSync(v, filePath) == statSync(v, filePath)

readFileSync(v, filePath, options) ==
  LET entry == resolveEntry(v, filePath) IN
  IF entry = Null THEN Throw(createENOENT("open", filePath))
  ELSE IF isDirectory(entry) THEN Throw(createEISDIR("read", filePath))
  ELSE LET content == getContentSync(entry) IN
       IF ~content.ok THEN content
       ELSE IF options # "none"
            THEN Return([t |-> "string", data |-> content.val, encoding |-> options])
            ELSE Return([t |-> "buffer", data |-> content.val, encoding |-> "none"])

\* Mutant: the path inside the instance is returned, without the mount prefix.
realpathSync_VfsPath(v, filePath) ==
  LET normalized == normalizePath(filePath) IN
  IF resolveEntry(v, normalized) = Null
  THEN Throw(createENOENT("realpath", filePath))
  ELSE Return([t |-> "path",
               path |-> IF kMounted[v] /\ kMountPoint[v] # NullPath
                        THEN getRelativePath(normalized, kMountPoint[v])
                        ELSE normalized])

realpathSync(v, filePath) ==
  LET normalized == normalizePath(filePath) IN
  IF resolveEntry(v, normalized) = Null
  THEN Throw(createENOENT("realpath", filePath))
  ELSE Return([t |-> "path", path |-> normalized])

\* _resolveEntry and realpathSync on a host whose path.sep is sep.
resolveEntryOn(sep, v, inputPath) ==
  LET normalized == normalizePathOn(sep, inputPath) IN
  IF kMounted[v] /\ kMountPoint[v] # NullPath
  THEN IF ~isUnderMountPoint(normalized, kMountPoint[v]) THEN Null
       ELSE LET vfsPath == getRelativePath(normalized, kMountPoint[v]) IN
            IF vfsPath = <<"/">> THEN kRoot[v]
            ELSE WalkSegments(kRoot[v], splitPath(vfsPath))
  ELSE IF normalized = <<"/">> THEN kRoot[v]
       ELSE WalkSegments(kRoot[v], splitPath(normalized))

realpathSyncOn(sep, v, filePath) ==
  LET normalized == normalizePathOn(sep, filePath) IN
  IF resolveEntryOn(sep, v, normalized) = Null
  THEN Throw(createENOENT("realpath", filePath))
  ELSE Return([t |-> "path", path |-> normalized])

internalModuleStat(v, filePath) ==
  LET entry == resolveEntry(v, filePath) IN
  IF entry = Null THEN -2
  ELSE IF isDirectory(entry) THEN 1
  ELSE 0

has(v, entryPath) == resolveEntry(v, normalizePath(entryPath)) # Null

getEntryNames(entry) == DOMAIN entry.entries

\* Mutant: every child is reported as a directory.
Listing_AllDirectories(entry, options) ==
  IF options = "withFileTypes"
  THEN [t |-> "dirents",
        items |-> {[name |-> n, dir |-> TRUE] : n \in getEntryNames(entry)}]
  ELSE [t |-> "names", items |-> getEntryNames(entry)]

Listing(entry, options) ==
  IF options = "withFileTypes"
  THEN [t |-> "dirents",
        items |-> {[name |-> n, dir |-> isDirectory(getEntry(entry, n))] :
                     n \in getEntryNames(entry)}]
  ELSE [t |-> "names", items |-> getEntryNames(entry)]

readdirSync(v, dirPath, options) ==
  LET entry == resolveEntry(v, dirPath) IN
  IF entry = Null THEN Throw(createENOENT("scandir", dirPath))
  ELSE IF ~isDirectory(entry) THEN Throw(createENOTDIR("scandir", dirPath))
  ELSE Return(Listing(entry, options))

(***************************************************************************)
(* virtual_fs.js: callback and promise forms.  The result is what the      *)
(* callback receives, or what the promise settles to.                      *)
(***************************************************************************)
Encoded(content, options) ==
  IF options # "none"
  THEN Return([t |-> "string", data |-> content, encoding |-> options])
  ELSE Return([t |-> "buffer", data |-> content, encoding |-> "none"])

getContent(entry) ==
  IF entry.content = Rejecting THEN Throw(ProviderError)
  ELSE Return(entry.content)

\* What the promise of getContent() passes on: the content, encoded as asked,
\* or the rejection.
Settled(content, options) ==
  IF content.ok THEN Encoded(content.val, options) ELSE content

readFile(v, filePath, options) ==
  LET entry == resolveEntry(v, filePath) IN
  IF entry = Null THEN Throw(createENOENT("open", filePath))
  ELSE IF isDirectory(entry) THEN Throw(createEISDIR("read", filePath))
  ELSE Settled(getContent(entry), options)

\* Mutant: the kind of the entry is not examined.
readdir_NoKindCheck(v, dirPath, options) ==
  LET entry == resolveEntry(v, dirPath) IN
  IF entry = Null THEN Throw(createENOENT("scandir", dirPath))
  ELSE Return(Listing(entry, options))

readdir(v, dirPath, options) ==
  LET entry == resolveEntry(v, dirPath) IN
  IF entry = Null THEN Throw(createENOENT("scandir", dirPath))
  ELSE IF ~isDirectory(entry) THEN Throw(createENOTDIR("scandir", dirPath))
  ELSE Return(Listing(entry, options))

promisesReadFile(v, filePath, options) ==
  LET entry == resolveEntry(v, filePath) IN
  IF entry = Null THEN Throw(createENOENT("open", filePath))
  ELSE IF isDirectory(entry) THEN Throw(createEISDIR("read", filePath))
  ELSE Settled(getContent(entry), options)

promisesReaddir(v, dirPath, options) ==
  LET entry == resolveEntry(v, dirPath) IN
  IF entry = Null THEN Throw(createENOENT("scandir", dirPath))
  ELSE IF ~isDirectory(entry) THEN Throw(createENOTDIR("scandir", dirPath))
  ELSE Return(Listing(entry, options))

Undefined == [t |-> "undefined"]

stat(v, filePath) ==
  LET entry == resolveEntry(v, filePath) IN
  IF entry = Null THEN Throw(createENOENT("stat", filePath))
  ELSE Return(getStats(entry))

lstat(v, filePath) == stat(v, filePath)

\* Mutant: the callback receives the path as it was given.
realpath_AsGiven(v, filePath) ==
  IF resolveEntry(v, normalizePath(filePath)) = Null
  THEN Throw(createENOENT("realpath", filePath))
  ELSE Return([t |-> "path", path |-> filePath])

realpath(v, filePath) ==
  LET normalized == normalizePath(filePath) IN
  IF resolveEntry(v, normalized) = Null
  THEN Throw(createENOENT("realpath", filePath))
  ELSE Return([t |-> "path", path |-> normalized])

access(v, filePath) ==
  LET entry == resolveEntry(v, filePath) IN
  IF entry = Null THEN Throw(createENOENT("access", filePath))
  ELSE Return(Undefined)

promisesStat(v, filePath) ==
  LET entry == resolveEntry(v, filePath) IN
  IF entry = Null THEN Throw(createENOENT("stat", filePath))
  ELSE Return(getStats(entry))

promisesLstat(v, filePath) == promisesStat(v, filePath)

promisesRealpath(v, filePath) ==
  LET normalized == normalizePath(filePath) IN
  IF resolveEntry(v, normalized) = Null
  THEN Throw(createENOENT("realpath", filePath))
  ELSE Return([t |-> "path", path |-> normalized])

promisesAccess(v, filePath) ==
  LET entry == resolveEntry(v, filePath) IN
  IF entry = Null THEN Throw(createENOENT("access", filePath))
  ELSE Return(Undefined)

Bool(b) == [t |-> "bool", value |-> b]

Code(n) == [t |-> "code", code |-> n]

VfsOps == {"vfs.existsSync", "vfs.statSync", "vfs.lstatSync", "vfs.readFileSync",
           "vfs.readdirSync", "vfs.realpathSync", "vfs.internalModuleStat", "vfs.has",
           "vfs.readFile", "vfs.readdir", "vfs.promises.readFile",
           "vfs.promises.readdir", "vfs.stat", "vfs.lstat", "vfs.realpath",
           "vfs.access", "vfs.promises.stat", "vfs.promises.lstat",
           "vfs.promises.realpath", "vfs.promises.access"}

VfsCall(v, op, p, options) ==
  CASE op = "vfs.existsSync" -> Return(Bool(existsSync(v, p)))
    [] op = "vfs.statSync" -> statSync(v, p)
    [] op = "vfs.lstatSync" -> lstatSync(v, p)
    [] op = "vfs.readFileSync" -> readFileSync(v, p, options)
    [] op = "vfs.readdirSync" -> readdirSync(v, p, options)
    [] op = "vfs.realpathSync" -> realpathSync(v, p)
    [] op = "vfs.internalModuleStat" -> Return(Code(internalModuleStat(v, p)))
    [] op = "vfs.has" -> Return(Bool(has(v, p)))
    [] op = "vfs.readFile" -> readFile(v, p, options)
    [] op = "vfs.readdir" -> readdir(v, p, options)
    [] op = "vfs.promises.readFile" -> promisesReadFile(v, p, options)
    [] op = "vfs.promises.readdir" -> promisesReaddir(v, p, options)
    [] op = "vfs.stat" -> stat(v, p)
    [] op = "vfs.lstat" -> lstat(v, p)
    [] op = "vfs.realpath" -> realpath(v, p)
    [] op = "vfs.access" -> access(v, p)
    [] op = "vfs.promises.stat" -> promisesStat(v, p)
    [] op = "vfs.promises.lstat" -> promisesLstat(v, p)
    [] op = "vfs.promises.realpath" -> promisesRealpath(v, p)
    [] op = "vfs.promises.access" -> promisesAccess(v, p)

(***************************************************************************)
(* virtual_fs.js: addFile / addDirectory / remove.  The walk creates the   *)
(* missing ancestors as it goes; [ok |-> FALSE] is the throw, and node is  *)
(* the directory as the walk left it.                                      *)
(***************************************************************************)
\* Mutant: an ancestor that is a file is replaced by a directory.
RECURSIVE AddWalk_NoFileCheck(_, _, _)
AddWalk_NoFileCheck(current, segments, leaf) ==
  IF Len(segments) = 1
  THEN [ok |-> TRUE, node |-> addEntry(current, segments[1], leaf)]
  ELSE LET segment == Head(segments)
           entry == getEntry(current, segment)
           dir == IF isDirectory(entry) THEN entry ELSE VirtualDirectory(NoEntries)
           sub == AddWalk_NoFileCheck(dir, Tail(segments), leaf)
       IN [ok |-> sub.ok, node |-> addEntry(current, segment, sub.node)]

RECURSIVE AddWalk(_, _, _)
AddWalk(current, segments, leaf) ==
  IF Len(segments) = 1
  THEN [ok |-> TRUE, node |-> addEntry(current, segments[1], leaf)]
  ELSE LET segment == Head(segments)
           entry == getEntry(current, segment)
       IN IF entry = Null
          THEN LET sub == AddWalk(VirtualDirectory(NoEntries), Tail(segments), leaf)
               IN [ok |-> sub.ok, node |-> addEntry(current, segment, sub.node)]
          ELSE IF ~isDirectory(entry)
          THEN [ok |-> FALSE, node |-> current]
          ELSE LET sub == AddWalk(entry, Tail(segments), leaf)
               IN [ok |-> sub.ok, node |-> addEntry(current, segment, sub.node)]

\* Mutant: a file added at the root path takes the place of the root.
addFile_AtRoot(v, filePath, content) ==
  LET segments == splitPath(normalizePath(filePath)) IN
  IF Len(segments) = 0 THEN [ok |-> TRUE, node |-> VirtualFile(content)]
  ELSE AddWalk(kRoot[v], segments, VirtualFile(content))

addFile(v, filePath, content) ==
  LET segments == splitPath(normalizePath(filePath)) IN
  IF Len(segments) = 0 THEN [ok |-> FALSE, node |-> kRoot[v]]
  ELSE AddWalk(kRoot[v], segments, VirtualFile(content))

\* The populate argument: absent, or a callback given by the names of the
\* files it adds to its directory.
NoPopulate == [given |-> FALSE, names |-> {}]

PopulateAdding(names) == [given |-> TRUE, names |-> names]

\* new VirtualDirectory(path, populate, options), as its contents are seen.
NewDirectory(populate) ==
  VirtualDirectory([n \in populate.names |-> VirtualFile("data")])

\* Mutant: the root is never replaced.
addDirectory_KeepsRoot(v, dirPath, populate) ==
  LET segments == splitPath(normalizePath(dirPath)) IN
  IF Len(segments) = 0 THEN [ok |-> TRUE, node |-> kRoot[v]]
  ELSE AddWalk(kRoot[v], segments, NewDirectory(populate))

\* Mutant: a directory that exists at the path is kept, as by mkdir -p.
addDirectory_KeepsExisting(v, dirPath, populate) ==
  LET segments == splitPath(normalizePath(dirPath)) IN
  IF Len(segments) = 0
  THEN [ok |-> TRUE, node |-> IF populate.given THEN NewDirectory(populate) ELSE kRoot[v]]
  ELSE IF isDirectory(WalkSegments(kRoot[v], segments))
  THEN [ok |-> TRUE, node |-> kRoot[v]]
  ELSE AddWalk(kRoot[v], segments, NewDirectory(populate))

addDirectory(v, dirPath, populate) ==
  LET segments == splitPath(normalizePath(dirPath)) IN
  IF Len(segments) = 0
  THEN [ok |-> TRUE, node |-> IF populate.given THEN NewDirectory(populate) ELSE kRoot[v]]
  ELSE AddWalk(kRoot[v], segments, NewDirectory(populate))

RECURSIVE RemoveWalk(_, _, _)
RemoveWalk(current, segments, name) ==
  IF Len(segments) = 0 THEN removeEntry(current, name)
  ELSE addEntry(current, Head(segments),
                RemoveWalk(getEntry(current, Head(segments)), Tail(segments), name))

VfsPathOf(v, normalized) ==
  IF kMounted[v] /\ kMountPoint[v] # NullPath
  THEN getRelativePath(normalized, kMountPoint[v])
  ELSE normalized

remove(v, entryPath) ==
  LET normalized == normalizePath(entryPath)
      parentPath == getParentPath(normalized)
  IN IF parentPath = NullPath THEN [removed |-> FALSE, node |-> kRoot[v]]
     ELSE LET parent == resolveEntry(v, parentPath) IN
          IF parent = Null \/ ~isDirectory(parent)
          THEN [removed |-> FALSE, node |-> kRoot[v]]
          ELSE LET name == getBaseName(normalized) IN
               [removed |-> name \in DOMAIN parent.entries,
                node |-> RemoveWalk(kRoot[v],
                                    splitPath(VfsPathOf(v, normalizePath(parentPath))),
                                    name)]

(***************************************************************************)
(* module_hooks.js: registry and hook installation                         *)
(***************************************************************************)
EntryPoints == {"Module._stat", "readFileSync", "realpathSync", "lstatSync",
                "statSync", "resolve", "load"}

IndexOf(list, v) ==
  IF \E i \in 1..Len(list) : list[i] = v
  THEN (CHOOSE i \in 1..Len(list) : list[i] = v /\ \A j \in 1..(i - 1) : list[j] # v) - 1
  ELSE -1

Splice1(list, index) ==
  SubSeq(list, 1, index) \o SubSeq(list, index + 2, Len(list))

installHooks ==
  IF hooksInstalled
  THEN UNCHANGED <<originals, bindings, hooksInstalled>>
  ELSE /\ originals' = [e \in EntryPoints |-> bindings[e]]
       /\ bindings' = [e \in EntryPoints |-> "vfs"]
       /\ hooksInstalled' = TRUE

\* Mutant: the instance is appended without looking for it in the list.
registerVFS_NoCheck(v) ==
  /\ activeVFSList' = Append(activeVFSList, v)
  /\ IF ~hooksInstalled THEN installHooks
     ELSE UNCHANGED <<originals, bindings, hooksInstalled>>

\* Mutant: a newly registered instance is put in front.
registerVFS_InFront(v) ==
  IF IndexOf(activeVFSList, v) = -1
  THEN /\ activeVFSList' = <<v>> \o activeVFSList
       /\ IF ~hooksInstalled THEN installHooks
          ELSE UNCHANGED <<originals, bindings, hooksInstalled>>
  ELSE UNCHANGED <<activeVFSList, originals, bindings, hooksInstalled>>

registerVFS(v) ==
  IF IndexOf(activeVFSList, v) = -1
  THEN /\ activeVFSList' = Append(activeVFSList, v)
       /\ IF ~hooksInstalled THEN installHooks
          ELSE UNCHANGED <<originals, bindings, hooksInstalled>>
  ELSE UNCHANGED <<activeVFSList, originals, bindings, hooksInstalled>>

\* Mutant: the hooks are marked uninstalled when the list becomes empty.
unregisterVFS_Uninstalls(v) ==
  LET index == IndexOf(activeVFSList, v) IN
  /\ activeVFSList' = IF index # -1 THEN Splice1(activeVFSList, index) ELSE activeVFSList
  /\ hooksInstalled' = (hooksInstalled /\ activeVFSList' # <<>>)
  /\ UNCHANGED <<originals, bindings>>

\* Mutant: the instance is left in the list.
unregisterVFS_Noop(v) ==
  UNCHANGED <<activeVFSList, originals, bindings, hooksInstalled>>

unregisterVFS(v) ==
  LET index == IndexOf(activeVFSList, v) IN
  /\ activeVFSList' = IF index # -1 THEN Splice1(activeVFSList, index) ELSE activeVFSList
  /\ UNCHANGED <<originals, bindings, hooksInstalled>>

(***************************************************************************)
(* module_hooks.js: the search over the active list.  A search result is   *)
(* [status, vfs, val, consulted]: status "found" (the object returned),    *)
(* "null" (return null) or "throw"; consulted lists the instances whose    *)
(* shouldHandle was called, in order.                                      *)
(***************************************************************************)
Found(v, val, consulted) == [status |-> "found", vfs |-> v, val |-> val, consulted |-> consulted]

NotFound(consulted) == [status |-> "null", vfs |-> 0, val |-> [t |-> "null"], consulted |-> consulted]

Thrown(v, err, consulted) == [status |-> "throw", vfs |-> v, val |-> err, consulted |-> consulted]

RECURSIVE StatLoop(_, _, _, _)
StatLoop(list, i, normalized, consulted) ==
  IF i > Len(list) THEN NotFound(consulted)
  ELSE LET vfs == list[i]
           seen == Append(consulted, vfs)
       IN IF shouldHandle(vfs, normalized)
          THEN LET result == internalModuleStat(vfs, normalized) IN
               IF isMounted(vfs) \/ result >= 0
               THEN Found(vfs, [t |-> "code", code |-> result], seen)
               ELSE StatLoop(list, i + 1, normalized, seen)
          ELSE StatLoop(list, i + 1, normalized, seen)

\* Mutant: the list is searched from its end.
findVFSForStat_LastFirst(list, filename) ==
  LET reversed == [i \in 1..Len(list) |-> list[Len(list) + 1 - i]] IN
  StatLoop(reversed, 1, normalizePath(filename), <<>>)

findVFSForStat(list, filename) == StatLoop(list, 1, normalizePath(filename), <<>>)

\* Mutant: a directory does not end the search; the next instance is asked.
RECURSIVE ReadLoop_PastDirectory(_, _, _, _, _, _)
ReadLoop_PastDirectory(list, i, filename, normalized, options, consulted) ==
  IF i > Len(list) THEN NotFound(consulted)
  ELSE LET vfs == list[i]
           seen == Append(consulted, vfs)
       IN IF shouldHandle(vfs, normalized)
          THEN IF existsSync(vfs, normalized)
               THEN IF internalModuleStat(vfs, normalized) # 0
                    THEN ReadLoop_PastDirectory(list, i + 1, filename, normalized, options, seen)
                    ELSE LET content == readFileSync(vfs, normalized, options) IN
                         IF content.ok THEN Found(vfs, content.val, seen)
                         ELSE IF isMounted(vfs) THEN Thrown(vfs, content.val, seen)
                         ELSE ReadLoop_PastDirectory(list, i + 1, filename, normalized,
                                                     options, seen)
               ELSE IF isMounted(vfs)
                    THEN Thrown(vfs, createENOENT("open", filename), seen)
                    ELSE ReadLoop_PastDirectory(list, i + 1, filename, normalized,
                                                options, seen)
          ELSE ReadLoop_PastDirectory(list, i + 1, filename, normalized, options, seen)

RECURSIVE ReadLoop(_, _, _, _, _, _)
ReadLoop(list, i, filename, normalized, options, consulted) ==
  IF i > Len(list) THEN NotFound(consulted)
  ELSE LET vfs == list[i]
           seen == Append(consulted, vfs)
       IN IF shouldHandle(vfs, normalized)
          THEN IF existsSync(vfs, normalized)
               THEN IF internalModuleStat(vfs, normalized) # 0
                    THEN NotFound(seen)
                    ELSE LET content == readFileSync(vfs, normalized, options) IN
                         IF content.ok THEN Found(vfs, content.val, seen)
                         ELSE IF isMounted(vfs) THEN Thrown(vfs, content.val, seen)
                         ELSE ReadLoop(list, i + 1, filename, normalized, options, seen)
               ELSE IF isMounted(vfs)
                    THEN Thrown(vfs, createENOENT("open", filename), seen)
                    ELSE ReadLoop(list, i + 1, filename, normalized, options, seen)
          ELSE ReadLoop(list, i + 1, filename, normalized, options, seen)

findVFSForRead(list, filename, options) ==
  ReadLoop(list, 1, filename, normalizePath(filename), options, <<>>)

RECURSIVE RealpathLoop(_, _, _, _, _)
RealpathLoop(list, i, filename, normalized, consulted) ==
  IF i > Len(list) THEN NotFound(consulted)
  ELSE LET vfs == list[i]
           seen == Append(consulted, vfs)
       IN IF shouldHandle(vfs, normalized)
          THEN IF existsSync(vfs, normalized)
               THEN LET realpathResult == realpathSync(vfs, normalized) IN
                    IF realpathResult.ok THEN Found(vfs, realpathResult.val, seen)
                    ELSE IF isMounted(vfs) THEN Thrown(vfs, realpathResult.val, seen)
                    ELSE RealpathLoop(list, i + 1, filename, normalized, seen)
               ELSE IF isMounted(vfs)
                    THEN Thrown(vfs, createENOENT("realpath", filename), seen)
                    ELSE RealpathLoop(list, i + 1, filename, normalized, seen)
          ELSE RealpathLoop(list, i + 1, filename, normalized, seen)

findVFSForRealpath(list, filename) ==
  RealpathLoop(list, 1, filename, normalizePath(filename), <<>>)

RECURSIVE FsStatLoop(_, _, _, _, _)
FsStatLoop(list, i, filename, normalized, consulted) ==
  IF i > Len(list) THEN NotFound(consulted)
  ELSE LET vfs == list[i]
           seen == Append(consulted, vfs)
       IN IF shouldHandle(vfs, normalized)
          THEN IF existsSync(vfs, normalized)
               THEN LET stats == statSync(vfs, normalized) IN
                    IF stats.ok THEN Found(vfs, stats.val, seen)
                    ELSE IF isMounted(vfs) THEN Thrown(vfs, stats.val, seen)
                    ELSE FsStatLoop(list, i + 1, filename, normalized, seen)
               ELSE IF isMounted(vfs)
                    THEN Thrown(vfs, createENOENT("stat", filename), seen)
                    ELSE FsStatLoop(list, i + 1, filename, normalized, seen)
          ELSE FsStatLoop(list, i + 1, filename, normalized, seen)

\* Mutant: the search gives up after the first instance.
findVFSForFsStat_FirstOnly(list, filename) ==
  FsStatLoop(IF Len(list) = 0 THEN list ELSE <<list[1]>>, 1, filename,
             normalizePath(filename), <<>>)

findVFSForFsStat(list, filename) ==
  FsStatLoop(list, 1, filename, normalizePath(filename), <<>>)

(***************************************************************************)
(* module_hooks.js: URL helpers and module format                          *)
(***************************************************************************)
NodeScheme == <<"n", "o", "d", "e", ":">>

FileScheme == <<"f", "i", "l", "e", ":", "/", "/">>

fileURLToPath(url) == Slice(url, Len(FileScheme))

pathToFileURL(path) == FileScheme \o path

getFormatFromExtension(url) ==
  IF EndsWith(url, <<".", "m", "j", "s">>) THEN "module"
  ELSE IF EndsWith(url, <<".", "c", "j", "s">>) THEN "commonjs"
  ELSE IF EndsWith(url, <<".", "j", "s", "o", "n">>) THEN "json"
  ELSE "commonjs"

urlToPath(urlOrPath) ==
  IF StartsWith(urlOrPath, FileScheme) THEN fileURLToPath(urlOrPath) ELSE urlOrPath

(***************************************************************************)
(* The hooked entry points.  A call outcome is                             *)
(* [kind, by, val, consulted, origCalls]: kind "vfs" (a value returned by  *)
(* instance `by`), "throw" (an error thrown by instance `by`) or "orig"    *)
(* (the value or error of the saved original / next hook, passed on);      *)
(* origCalls lists the argument records the original was invoked with.     *)
(***************************************************************************)
CallOriginal(impl, entryPoint, arg) ==
  [t |-> "original", impl |-> impl, entryPoint |-> entryPoint, arg |-> arg]

Outcome(kind, by, val, consulted, origCalls) ==
  [kind |-> kind, by |-> by, val |-> val, consulted |-> consulted, origCalls |-> origCalls]

\* Mutant: the original is called with the normalized path.
FromSearch_NormalizedArg(r, entryPoint, arg) ==
  LET passed == [arg EXCEPT !.p = normalizePath(arg.p)] IN
  IF r.status = "found" THEN Outcome("vfs", r.vfs, r.val, r.consulted, <<>>)
  ELSE IF r.status = "throw" THEN Outcome("throw", r.vfs, r.val, r.consulted, <<>>)
  ELSE Outcome("orig", 0, CallOriginal(originals[entryPoint], entryPoint, passed),
               r.consulted, <<passed>>)

FromSearch(r, entryPoint, arg) ==
  IF r.status = "found" THEN Outcome("vfs", r.vfs, r.val, r.consulted, <<>>)
  ELSE IF r.status = "throw" THEN Outcome("throw", r.vfs, r.val, r.consulted, <<>>)
  ELSE Outcome("orig", 0, CallOriginal(originals[entryPoint], entryPoint, arg),
               r.consulted, <<arg>>)

PassThrough(entryPoint, arg) ==
  Outcome("orig", 0, CallOriginal(originals[entryPoint], entryPoint, arg), <<>>, <<arg>>)

IsPathArg(arg) == arg.t = "string" \/ arg.t = "url"

vfsStat(list, arg) ==
  FromSearch(findVFSForStat(list, arg.p), "Module._stat", arg)

vfsReadFileSync(list, arg) ==
  IF IsPathArg(arg)
  THEN FromSearch(findVFSForRead(list, arg.p, arg.options), "readFileSync", arg)
  ELSE PassThrough("readFileSync", arg)

vfsRealpathSync(list, arg) ==
  IF IsPathArg(arg)
  THEN FromSearch(findVFSForRealpath(list, arg.p), "realpathSync", arg)
  ELSE PassThrough("realpathSync", arg)

vfsLstatSync(list, arg) ==
  IF IsPathArg(arg)
  THEN FromSearch(findVFSForFsStat(list, arg.p), "lstatSync", arg)
  ELSE PassThrough("lstatSync", arg)

vfsStatSync(list, arg) ==
  IF IsPathArg(arg)
  THEN FromSearch(findVFSForFsStat(list, arg.p), "statSync", arg)
  ELSE PassThrough("statSync", arg)

\* Mutant: whatever the instance holds at the path is resolved to.
RECURSIVE ResolveLoop_NoDirectoryCheck(_, _, _, _)
ResolveLoop_NoDirectoryCheck(list, i, normalized, consulted) ==
  IF i > Len(list) THEN NotFound(consulted)
  ELSE LET vfs == list[i]
           seen == Append(consulted, vfs)
       IN IF shouldHandle(vfs, normalized) /\ existsSync(vfs, normalized)
          THEN Found(vfs, [t |-> "resolved",
                           url |-> pathToFileURL(normalized),
                           format |-> getFormatFromExtension(normalized),
                           shortCircuit |-> TRUE], seen)
          ELSE ResolveLoop_NoDirectoryCheck(list, i + 1, normalized, seen)

RECURSIVE ResolveLoop(_, _, _, _)
ResolveLoop(list, i, normalized, consulted) ==
  IF i > Len(list) THEN NotFound(consulted)
  ELSE LET vfs == list[i]
           seen == Append(consulted, vfs)
       IN IF shouldHandle(vfs, normalized) /\ existsSync(vfs, normalized)
          THEN IF internalModuleStat(vfs, normalized) # 0
               THEN NotFound(seen)
               ELSE Found(vfs, [t |-> "resolved",
                                url |-> pathToFileURL(normalized),
                                format |-> getFormatFromExtension(normalized),
                                shortCircuit |-> TRUE], seen)
          ELSE ResolveLoop(list, i + 1, normalized, seen)

ResolveCheckPath(arg) ==
  IF StartsWith(arg.p, FileScheme) THEN fileURLToPath(arg.p)
  ELSE IF Len(arg.p) > 0 /\ arg.p[1] = "/" THEN arg.p
  ELSE IF Len(arg.p) > 0 /\ arg.p[1] = "." /\ arg.parentURL # <<>>
       THEN PathResolve2(PathResolve(PathDirname(urlToPath(arg.parentURL))), arg.p)
  ELSE <<>>

vfsResolveHook(list, arg) ==
  IF StartsWith(arg.p, NodeScheme) THEN PassThrough("resolve", arg)
  ELSE LET checkPath == ResolveCheckPath(arg) IN
       IF checkPath = <<>> THEN PassThrough("resolve", arg)
       ELSE FromSearch(ResolveLoop(list, 1, normalizePath(checkPath), <<>>), "resolve", arg)

RECURSIVE LoadLoop(_, _, _, _, _)
LoadLoop(list, i, normalized, format, consulted) ==
  IF i > Len(list) THEN NotFound(consulted)
  ELSE LET vfs == list[i]
           seen == Append(consulted, vfs)
       IN IF shouldHandle(vfs, normalized) /\ existsSync(vfs, normalized)
          THEN IF internalModuleStat(vfs, normalized) # 0
               THEN NotFound(seen)
               ELSE LET content == readFileSync(vfs, normalized, "utf8") IN
                    IF content.ok
                    THEN Found(vfs, [t |-> "loaded",
                                     format |-> IF format # "none" THEN format
                                                ELSE getFormatFromExtension(normalized),
                                     source |-> content.val,
                                     shortCircuit |-> TRUE], seen)
                    ELSE IF isMounted(vfs) THEN Thrown(vfs, content.val, seen)
                    ELSE LoadLoop(list, i + 1, normalized, format, seen)
          ELSE LoadLoop(list, i + 1, normalized, format, seen)

vfsLoadHook(list, arg) ==
  IF StartsWith(arg.p, NodeScheme) THEN PassThrough("load", arg)
  ELSE IF ~StartsWith(arg.p, FileScheme) THEN PassThrough("load", arg)
  ELSE FromSearch(LoadLoop(list, 1, normalizePath(fileURLToPath(arg.p)), arg.format, <<>>),
                  "load", arg)

Dispatch(list, entryPoint, arg) ==
  CASE entryPoint = "Module._stat" -> vfsStat(list, arg)
    [] entryPoint = "readFileSync" -> vfsReadFileSync(list, arg)
    [] entryPoint = "realpathSync" -> vfsRealpathSync(list, arg)
    [] entryPoint = "lstatSync" -> vfsLstatSync(list, arg)
    [] entryPoint = "statSync" -> vfsStatSync(list, arg)
    [] entryPoint = "resolve" -> vfsResolveHook(list, arg)
    [] entryPoint = "load" -> vfsLoadHook(list, arg)

Native(entryPoint, arg) ==
  Outcome("orig", 0, CallOriginal("native", entryPoint, arg), <<>>, <<arg>>)

(***************************************************************************)
(* sea vfs (part_000): the 'sea' binding, asset paths, and the tree built  *)
(* from the assets                                                         *)
(***************************************************************************)
\* constructor: this[kFallthrough] = options.fallthrough !== false
ConstructedFallthrough(option) == option # "false"

NullVfs == 0

NotSea == [isSea |-> FALSE, keys |-> <<>>]

DefaultSeaPrefix == <<"/", "s", "e", "a">>

\* An option that was not given (the empty string is not among the inputs).
NoPrefix == <<>>

\* options.prefix ?? '/sea'
SeaPrefix(options) ==
  IF options.prefix = NoPrefix THEN DefaultSeaPrefix ELSE options.prefix

\* options.moduleHooks !== false
SeaModuleHooks(options) == options.moduleHooks # "false"

AssetPath(key) == IF StartsWith(key, <<"/">>) THEN key ELSE <<"/">> \o key

RECURSIVE PopulateSea(_, _)
PopulateSea(root, keys) ==
  IF keys = <<>> THEN [ok |-> TRUE, node |-> root]
  ELSE LET segments == splitPath(normalizePath(AssetPath(Head(keys))))
           added == IF Len(segments) = 0 THEN [ok |-> FALSE, node |-> root]
                    ELSE AddWalk(root, segments, VirtualFile("data"))
       IN IF added.ok THEN PopulateSea(added.node, Tail(keys))
          ELSE [ok |-> FALSE, node |-> root]

hasSeaAssets ==
  IF ~seaBinding.isSea THEN FALSE
  ELSE Len(seaBinding.keys) > 0

(***************************************************************************)
(* http serve (part_000): writeResponse and invokeHandler for one request. *)
(* A handler or an onError function is given by what a call of it does;    *)
(* what reaches the socket is the sequence of status lines written, each   *)
(* with whether the whole response followed.                               *)
(***************************************************************************)
\* handleConnection: the parser runs, nothing is parsed, the socket is open.
NewPipeline ==
  [incoming |-> <<>>, requests |-> <<>>, paused |-> FALSE, current |-> 0,
   log |-> <<>>, ended |-> FALSE, destroyed |-> FALSE]

\* createRequest: a body stream for every method but GET and HEAD.
HasBodyStream(method) == method \notin {"GET", "HEAD"}

NewConnection == [requests |-> 0, written |-> <<>>, emitted |-> <<>>, ended |-> FALSE]

Response(status) == [t |-> "Response", status |-> status]

UndefinedValue == [t |-> "undefined"]

StringValue == [t |-> "string"]

DefaultErrorResponse == Response("500")

InvalidArgType == "ERR_INVALID_ARG_TYPE"

Does(kind, value) == [kind |-> kind, value |-> value]

\* What `await f(...)` gives: the value, or the error thrown or rejected with.
Awaited(f) ==
  IF f.kind \in {"throws", "rejects"} THEN Throw(f.value) ELSE Return(f.value)

\* writeResponse: what it writes before it returns or throws.
writeResponse(response, keepAlive) ==
  IF response.t = "Response"
  THEN <<[status |-> response.status, complete |-> TRUE, keepAlive |-> keepAlive]>>
  ELSE IF response.t = "undefined" THEN <<>>
  ELSE <<[status |-> "undefined", complete |-> FALSE, keepAlive |-> keepAlive]>>

invokeHandler(handler, onError, keepAlive) ==
  LET response == Awaited(handler)
      error == IF ~response.ok THEN response.val
               ELSE IF response.val.t # "Response" THEN InvalidArgType
               ELSE "none"
  IN IF error = "none"
     THEN IF handler.kind = "bodyFails"
          THEN [written |-> <<[status |-> response.val.status, complete |-> FALSE,
                               keepAlive |-> keepAlive]>>,
                emitted |-> <<"BodyError">>]
          ELSE [written |-> writeResponse(response.val, keepAlive), emitted |-> <<>>]
     ELSE LET errorResponse ==
                IF onError.kind # "absent"
                THEN IF Awaited(onError).ok THEN Awaited(onError).val
                     ELSE DefaultErrorResponse
                ELSE DefaultErrorResponse
          IN [written |-> writeResponse(errorResponse, FALSE), emitted |-> <<error>>]

(***************************************************************************)
(* Observation of the last call: its name, receiver, arguments, result.    *)
(* A hooked call or a query leaves its outcome in `last` until the caller   *)
(* has taken it (CallReturns); it changes no variable of the program, so   *)
(* every state the administrative calls reach is still called from.        *)
(***************************************************************************)
NoCall == [op |-> "none", v |-> 0, arg |-> [p |-> <<>>], res |-> [ok |-> TRUE]]

Observe(op, v, arg, res) == [op |-> op, v |-> v, arg |-> arg, res |-> res]

InCall == last.op \in EntryPoints \cup VfsOps \cup {"initiate", "callback", "normalizePath"}

\* State outside the instances and the registry.
seaState == <<cachedSeaVfs, seaInstances, seaBinding>>

serveState == <<connection, pipeline>>

beyondVfs == <<tickQueue, seaState, serveState>>

registry == <<activeVFSList, hooksInstalled, originals, bindings>>

modes == <<kMountPoint, kMounted, kOverlay, kFallthrough>>

(***************************************************************************)
(* virtual_fs.js: administrative actions                                   *)
(***************************************************************************)
AddFile(v, p, c) ==
  LET r == addFile(v, p, c) IN
  /\ ~InCall
  /\ UNCHANGED beyondVfs
  /\ CountEntries(r.node) <= MaxEntries
  /\ kRoot' = [kRoot EXCEPT ![v] = r.node]
  /\ last' = Observe("addFile", v, [p |-> p, content |-> c], [ok |-> r.ok])
  /\ UNCHANGED <<modes, registry>>

AddDirectory(v, p, populate) ==
  LET r == addDirectory(v, p, populate) IN
  /\ ~InCall
  /\ UNCHANGED beyondVfs
  /\ CountEntries(r.node) <= MaxEntries
  /\ kRoot' = [kRoot EXCEPT ![v] = r.node]
  /\ last' = Observe("addDirectory", v, [p |-> p, populate |-> populate], [ok |-> r.ok])
  /\ UNCHANGED <<modes, registry>>

Remove(v, p) ==
  LET r == remove(v, p) IN
  /\ ~InCall
  /\ UNCHANGED beyondVfs
  /\ kRoot' = [kRoot EXCEPT ![v] = r.node]
  /\ last' = Observe("remove", v, [p |-> p], [ok |-> r.removed])
  /\ UNCHANGED <<modes, registry>>

\* Mutant: mount() does not check the current mode.
Mount_NoGuard(v, prefix) ==
  /\ ~InCall
  /\ UNCHANGED beyondVfs
  /\ kMountPoint' = [kMountPoint EXCEPT ![v] = normalizePath(prefix)]
  /\ kMounted' = [kMounted EXCEPT ![v] = TRUE]
  /\ registerVFS(v)
  /\ last' = Observe("mount", v, [p |-> prefix], [ok |-> TRUE])
  /\ UNCHANGED <<kRoot, kOverlay, kFallthrough>>

Mount(v, prefix) ==
  /\ ~InCall
  /\ UNCHANGED beyondVfs
  /\ IF kMounted[v] \/ kOverlay[v]
     THEN /\ last' = Observe("mount", v, [p |-> prefix], [ok |-> FALSE])
          /\ UNCHANGED <<kRoot, modes, registry>>
     ELSE /\ kMountPoint' = [kMountPoint EXCEPT ![v] = normalizePath(prefix)]
          /\ kMounted' = [kMounted EXCEPT ![v] = TRUE]
          /\ registerVFS(v)
          /\ last' = Observe("mount", v, [p |-> prefix], [ok |-> TRUE])
          /\ UNCHANGED <<kRoot, kOverlay, kFallthrough>>

\* Mutant: overlay() does not check the current mode.
Overlay_NoGuard(v) ==
  /\ ~InCall
  /\ UNCHANGED beyondVfs
  /\ kOverlay' = [kOverlay EXCEPT ![v] = TRUE]
  /\ registerVFS(v)
  /\ last' = Observe("overlay", v, [p |-> <<>>], [ok |-> TRUE])
  /\ UNCHANGED <<kRoot, kMountPoint, kMounted, kFallthrough>>

Overlay(v) ==
  /\ ~InCall
  /\ UNCHANGED beyondVfs
  /\ IF kMounted[v] \/ kOverlay[v]
     THEN /\ last' = Observe("overlay", v, [p |-> <<>>], [ok |-> FALSE])
          /\ UNCHANGED <<kRoot, modes, registry>>
     ELSE /\ kOverlay' = [kOverlay EXCEPT ![v] = TRUE]
          /\ registerVFS(v)
          /\ last' = Observe("overlay", v, [p |-> <<>>], [ok |-> TRUE])
          /\ UNCHANGED <<kRoot, kMountPoint, kMounted, kFallthrough>>

\* Mutant: unmount() also discards the tree.
Unmount_DiscardsTree(v) ==
  /\ ~InCall
  /\ UNCHANGED beyondVfs
  /\ unregisterVFS(v)
  /\ kMountPoint' = [kMountPoint EXCEPT ![v] = NullPath]
  /\ kMounted' = [kMounted EXCEPT ![v] = FALSE]
  /\ kOverlay' = [kOverlay EXCEPT ![v] = FALSE]
  /\ kRoot' = [kRoot EXCEPT ![v] = VirtualDirectory(NoEntries)]
  /\ last' = Observe("unmount", v, [p |-> <<>>],
                     [ok |-> TRUE, index |-> IndexOf(activeVFSList, v)])
  /\ UNCHANGED kFallthrough

Unmount(v) ==
  /\ ~InCall
  /\ UNCHANGED beyondVfs
  /\ unregisterVFS(v)
  /\ kMountPoint' = [kMountPoint EXCEPT ![v] = NullPath]
  /\ kMounted' = [kMounted EXCEPT ![v] = FALSE]
  /\ kOverlay' = [kOverlay EXCEPT ![v] = FALSE]
  /\ last' = Observe("unmount", v, [p |-> <<>>],
                     [ok |-> TRUE, index |-> IndexOf(activeVFSList, v)])
  /\ UNCHANGED <<kRoot, kFallthrough>>

(***************************************************************************)
(* sea vfs (part_000): createSeaVfs, getSeaVfs, hasSeaAssets.  An instance *)
(* made by `new VirtualFileSystem` is the next unused one; seaInstances    *)
(* keeps, for each, the options createSeaVfs was called with.              *)
(***************************************************************************)
MaxSeaInstances == 2

VfsRef(v) == IF v = NullVfs THEN [t |-> "null"] ELSE [t |-> "vfs", id |-> v]

createSeaVfs(op, options, cache) ==
  IF ~seaBinding.isSea
  THEN /\ last' = Observe(op, NullVfs, options, Return(VfsRef(NullVfs)))
       /\ cachedSeaVfs' = IF cache THEN NullVfs ELSE cachedSeaVfs
       /\ UNCHANGED <<kRoot, modes, registry, seaInstances, seaBinding>>
  ELSE LET v == Len(seaInstances) + 1
           populated == PopulateSea(VirtualDirectory(NoEntries), seaBinding.keys)
       IN /\ Len(seaInstances) < MaxSeaInstances
          /\ v \in VFSIds
          /\ seaInstances' = Append(seaInstances, [v |-> v, options |-> options])
          /\ kRoot' = [kRoot EXCEPT ![v] = populated.node]
          /\ kFallthrough' = [kFallthrough EXCEPT ![v] = ConstructedFallthrough("undefined")]
          /\ UNCHANGED <<kOverlay, seaBinding>>
          /\ IF populated.ok
             THEN /\ kMountPoint' = [kMountPoint EXCEPT ![v] = normalizePath(SeaPrefix(options))]
                  /\ kMounted' = [kMounted EXCEPT ![v] = TRUE]
                  /\ registerVFS(v)
                  /\ cachedSeaVfs' = IF cache THEN v ELSE cachedSeaVfs
                  /\ last' = Observe(op, v, options, Return(VfsRef(v)))
             ELSE /\ last' = Observe(op, v, options, Throw([t |-> "error", code |-> "Error"]))
                  /\ UNCHANGED <<kMountPoint, kMounted, registry, cachedSeaVfs>>

CreateSeaVfs(options) ==
  /\ ~InCall
  /\ UNCHANGED <<tickQueue, serveState>>
  /\ createSeaVfs("createSeaVfs", options, FALSE)

\* Mutant: every call creates.
GetSeaVfs_NoCache(options) ==
  /\ ~InCall
  /\ UNCHANGED <<tickQueue, serveState>>
  /\ createSeaVfs("getSeaVfs", options, TRUE)

GetSeaVfs(options) ==
  /\ ~InCall
  /\ UNCHANGED <<tickQueue, serveState>>
  /\ IF cachedSeaVfs = NullVfs
     THEN createSeaVfs("getSeaVfs", options, TRUE)
     ELSE /\ last' = Observe("getSeaVfs", cachedSeaVfs, options, Return(VfsRef(cachedSeaVfs)))
          /\ UNCHANGED <<kRoot, modes, registry, seaState>>

HasSeaAssets ==
  /\ ~InCall
  /\ UNCHANGED <<tickQueue, serveState>>
  /\ last' = Observe("hasSeaAssets", NullVfs, [p |-> <<>>], Return(Bool(hasSeaAssets)))
  /\ UNCHANGED <<kRoot, modes, registry, seaState>>

(***************************************************************************)
(* router.js: normalizePath called on its own, on either kind of host      *)
(***************************************************************************)
NormalizeCall(sep, inputPath) ==
  /\ last' = Observe("normalizePath", 0, [p |-> inputPath, sep |-> sep],
                     Return([t |-> "path", path |-> normalizePathOn(sep, inputPath)]))
  /\ UNCHANGED <<kRoot, modes, registry, beyondVfs>>

Normalize(sep, inputPath) ==
  /\ ~InCall
  /\ NormalizeCall(sep, inputPath)

\* The result of the last call is normalized again.
NormalizeAgain ==
  /\ last.op = "normalizePath"
  /\ last.arg.p # last.res.val.path
  /\ NormalizeCall(last.arg.sep, last.res.val.path)

(***************************************************************************)
(* http serve (part_000): one request of a connection is handled           *)
(***************************************************************************)
MaxRequests == 2

InvokeHandler(handler, onError, keepAlive) ==
  LET outcome == invokeHandler(handler, onError, keepAlive) IN
  /\ ~InCall
  /\ ~connection.ended
  /\ connection.requests < MaxRequests
  /\ connection' = [requests |-> connection.requests + 1,
                    written |-> connection.written \o outcome.written,
                    emitted |-> connection.emitted \o outcome.emitted,
                    ended |-> ~keepAlive]
  /\ last' = Observe("invokeHandler", 0,
                     [handler |-> handler, onError |-> onError, keepAlive |-> keepAlive],
                     Return(outcome))
  /\ UNCHANGED <<kRoot, modes, registry, tickQueue, seaState, pipeline>>

(***************************************************************************)
(* http serve (part_000): the requests of one connection, step by step.    *)
(* The parser delivers onHeadersComplete and the end of a message only     *)
(* while it is not paused, one message after the other; pause() takes      *)
(* effect at once.  The log holds, in order, each call of the handler,     *)
(* each response written and the end of the socket.                        *)
(***************************************************************************)
\* The client writes a request on the connection.
Receive(request) ==
  /\ ~InCall
  /\ Len(pipeline.incoming) + Len(pipeline.requests) < MaxRequests
  /\ pipeline' = [pipeline EXCEPT !.incoming = Append(@, request)]
  /\ UNCHANGED <<kRoot, modes, registry, last, tickQueue, seaState, connection>>

\* onHeadersComplete: pauses the parser, creates the Request and calls
\* invokeHandler, which calls the handler before its first await.
OnHeadersComplete ==
  LET request == Head(pipeline.incoming)
      id == Len(pipeline.requests) + 1
  IN /\ ~InCall
     /\ ~pipeline.paused
     /\ ~pipeline.destroyed
     /\ pipeline.current = 0
     /\ pipeline.incoming # <<>>
     /\ pipeline' = [pipeline EXCEPT
                       !.incoming = Tail(@),
                       !.paused = TRUE,
                       !.current = id,
                       !.requests = Append(@, [request |-> request, responded |-> FALSE,
                                               closed |-> ~HasBodyStream(request.method)]),
                       !.log = Append(@, [e |-> "handler", id |-> id])]
     /\ UNCHANGED <<kRoot, modes, registry, last, tickQueue, seaState, connection>>

\* createRequestBodyStream, pull(): the body stream of request id asks for data.
Pull(id) ==
  /\ ~InCall
  /\ id \in 1..Len(pipeline.requests)
  /\ HasBodyStream(pipeline.requests[id].request.method)
  /\ ~pipeline.requests[id].closed
  /\ ~pipeline.destroyed
  /\ pipeline' = [pipeline EXCEPT !.paused = FALSE]
  /\ UNCHANGED <<kRoot, modes, registry, last, tickQueue, seaState, connection>>

\* The parser reaches the end of the current message: onComplete of its body
\* stream, or the empty callback of a request without one.
OnMessageComplete ==
  LET id == pipeline.current IN
  /\ ~InCall
  /\ ~pipeline.paused
  /\ ~pipeline.destroyed
  /\ id # 0
  /\ pipeline' = [pipeline EXCEPT !.current = 0, !.requests[id].closed = TRUE]
  /\ UNCHANGED <<kRoot, modes, registry, last, tickQueue, seaState, connection>>

\* invokeHandler from the handler's result on: the response or the error
\* response is written, then the parser is resumed or the socket is ended.
\* A write on an ended socket fails and destroys the socket.
Respond(id) ==
  LET entry == pipeline.requests[id]
      keepAlive == entry.request.keepAlive
      outcome == invokeHandler(entry.request.handler, entry.request.onError, keepAlive)
  IN /\ ~InCall
     /\ id \in 1..Len(pipeline.requests)
     /\ ~entry.responded
     /\ ~pipeline.destroyed
     /\ IF pipeline.ended
        THEN pipeline' = [pipeline EXCEPT !.requests[id].responded = TRUE,
                                          !.destroyed = TRUE]
        ELSE pipeline' = [pipeline EXCEPT
               !.requests[id].responded = TRUE,
               !.paused = IF keepAlive THEN FALSE ELSE @,
               !.ended = ~keepAlive,
               !.log = @ \o <<[e |-> "response", id |-> id, written |-> outcome.written]>>
                         \o (IF keepAlive THEN <<>> ELSE <<[e |-> "end", id |-> id]>>)]
     /\ UNCHANGED <<kRoot, modes, registry, last, tickQueue, seaState, connection>>

(***************************************************************************)
(* virtual_fs.js on a host whose path.sep is sep: addFile, mount and       *)
(* realpathSync                                                            *)
(***************************************************************************)
AddFileOn(sep, v, p, c) ==
  LET segments == splitPath(normalizePathOn(sep, p))
      r == IF Len(segments) = 0 THEN [ok |-> FALSE, node |-> kRoot[v]]
           ELSE AddWalk(kRoot[v], segments, VirtualFile(c))
  IN /\ ~InCall
     /\ UNCHANGED beyondVfs
     /\ CountEntries(r.node) <= MaxEntries
     /\ kRoot' = [kRoot EXCEPT ![v] = r.node]
     /\ last' = Observe("addFile", v, [p |-> p, content |-> c, sep |-> sep], [ok |-> r.ok])
     /\ UNCHANGED <<modes, registry>>

MountOn(sep, v, prefix) ==
  /\ ~InCall
  /\ UNCHANGED beyondVfs
  /\ IF kMounted[v] \/ kOverlay[v]
     THEN /\ last' = Observe("mount", v, [p |-> prefix, sep |-> sep], [ok |-> FALSE])
          /\ UNCHANGED <<kRoot, modes, registry>>
     ELSE /\ kMountPoint' = [kMountPoint EXCEPT ![v] = normalizePathOn(sep, prefix)]
          /\ kMounted' = [kMounted EXCEPT ![v] = TRUE]
          /\ registerVFS(v)
          /\ last' = Observe("mount", v, [p |-> prefix, sep |-> sep], [ok |-> TRUE])
          /\ UNCHANGED <<kRoot, kOverlay, kFallthrough>>

RealpathSyncOn(sep, v, p) ==
  /\ ~InCall
  /\ UNCHANGED beyondVfs
  /\ last' = Observe("vfs.realpathSync", v, [p |-> p, sep |-> sep], realpathSyncOn(sep, v, p))
  /\ UNCHANGED <<kRoot, modes, registry>>

(***************************************************************************)
(* virtual_fs.js: a query made on the instance itself                      *)
(***************************************************************************)
Query(v, op, p, options) ==
  /\ ~InCall
  /\ UNCHANGED beyondVfs
  /\ last' = Observe(op, v, [p |-> p, options |-> options], VfsCall(v, op, p, options))
  /\ UNCHANGED <<kRoot, modes, registry>>

(***************************************************************************)
(* virtual_fs.js: the callback forms, with the event loop.  A call hands   *)
(* its callback to process.nextTick, or to the then() of the promise that  *)
(* getContent() returns, together with the outcome computed during the     *)
(* call; both queues are drained only when no call is on the stack.        *)
(***************************************************************************)
MaxPending == 2

CallbackOps == {"vfs.readFile", "vfs.stat", "vfs.lstat", "vfs.readdir", "vfs.realpath",
                "vfs.access"}

\* Mutant: the error path for an absent entry calls the callback directly.
Schedule_DirectOnAbsent(v, op, p) ==
  LET entry == resolveEntry(v, p) IN
  IF entry = Null THEN "direct"
  ELSE IF op = "vfs.readFile" /\ ~isDirectory(entry) THEN "then"
  ELSE "nextTick"

Schedule(v, op, p) ==
  LET entry == resolveEntry(v, p) IN
  IF op = "vfs.readFile" /\ entry # Null /\ ~isDirectory(entry) THEN "then"
  ELSE "nextTick"

Initiate(v, op, p, options) ==
  LET arg == [op |-> op, p |-> p, options |-> options]
      outcome == VfsCall(v, op, p, options)
      via == Schedule(v, op, p)
  IN /\ ~InCall
     /\ Len(tickQueue) < MaxPending
     /\ IF via = "direct"
        THEN /\ last' = Observe("callback", v, arg, outcome)
             /\ UNCHANGED tickQueue
        ELSE /\ last' = Observe("initiate", v, arg, Return(Undefined))
             /\ tickQueue' = Append(tickQueue, [v |-> v, arg |-> arg, via |-> via,
                                                outcome |-> outcome])
     /\ UNCHANGED <<kRoot, modes, registry, seaState, serveState>>

\* The turn of the event loop that runs pending callback i.
RunCallback(i) ==
  /\ ~InCall
  /\ i \in 1..Len(tickQueue)
  /\ last' = Observe("callback", tickQueue[i].v, tickQueue[i].arg, tickQueue[i].outcome)
  /\ tickQueue' = SubSeq(tickQueue, 1, i - 1) \o SubSeq(tickQueue, i + 1, Len(tickQueue))
  /\ UNCHANGED <<kRoot, modes, registry, seaState, serveState>>

CallbackError == [t |-> "error", code |-> "CallbackError", syscall |-> "-", path |-> <<>>]

\* What a callback does when it is invoked.
Callbacks == {"returns", "throws"}

\* The arguments of each invocation of the callback of one call, in order.
\* A callback handed to process.nextTick is invoked by the tick and what it
\* throws reaches nobody.  readFile invokes the callback for the content
\* inside then() and has catch() behind it, which invokes the callback with
\* whatever rejected the chain: the provider, or the callback itself.
Invocations(via, outcome, callback) ==
  IF via = "then" /\ outcome.ok /\ callback = "throws"
  THEN <<outcome, Throw(CallbackError)>>
  ELSE <<outcome>>

\* A call of a callback form with a callback of the given behaviour.
InitiateWith(v, op, p, options, callback) ==
  LET arg == [op |-> op, p |-> p, options |-> options, callback |-> callback]
  IN /\ ~InCall
     /\ Len(tickQueue) < MaxPending
     /\ last' = Observe("initiate", v, arg, Return(Undefined))
     /\ tickQueue' = Append(tickQueue, [v |-> v, arg |-> arg, via |-> Schedule(v, op, p),
                                        outcome |-> VfsCall(v, op, p, options)])
     /\ UNCHANGED <<kRoot, modes, registry, seaState, serveState>>

\* The turn of the event loop that settles pending call i: every invocation
\* of its callback that the call gives rise to.
Deliver(i) ==
  /\ ~InCall
  /\ i \in 1..Len(tickQueue)
  /\ last' = [op |-> "callback", v |-> tickQueue[i].v, arg |-> tickQueue[i].arg,
              res |-> tickQueue[i].outcome,
              invocations |-> Invocations(tickQueue[i].via, tickQueue[i].outcome,
                                          tickQueue[i].arg.callback)]
  /\ tickQueue' = SubSeq(tickQueue, 1, i - 1) \o SubSeq(tickQueue, i + 1, Len(tickQueue))
  /\ UNCHANGED <<kRoot, modes, registry, seaState, serveState>>

(***************************************************************************)
(* Callers of the hooked entry points: the call goes to whatever is bound  *)
(* to the entry point at that moment.                                      *)
(***************************************************************************)
Call(entryPoint, arg) ==
  /\ ~InCall
  /\ UNCHANGED beyondVfs
  /\ last' = Observe(entryPoint, 0, arg,
                     IF bindings[entryPoint] = "vfs"
                     THEN Dispatch(activeVFSList, entryPoint, arg)
                     ELSE Native(entryPoint, arg))
  /\ UNCHANGED <<kRoot, modes, registry>>

CallModuleStat(arg) == Call("Module._stat", arg)

CallReadFileSync(arg) == Call("readFileSync", arg)

CallRealpathSync(arg) == Call("realpathSync", arg)

CallLstatSync(arg) == Call("lstatSync", arg)

CallStatSync(arg) == Call("statSync", arg)

CallResolve(arg) == Call("resolve", arg)

CallLoad(arg) == Call("load", arg)

CallReturns ==
  /\ InCall
  /\ UNCHANGED beyondVfs
  /\ last' = NoCall
  /\ UNCHANGED <<kRoot, modes, registry>>

(***************************************************************************)
(* Construction and the specification                                      *)
(***************************************************************************)
Init ==
  /\ kRoot = [v \in VFSIds |-> VirtualDirectory(NoEntries)]
  /\ kMountPoint = [v \in VFSIds |-> NullPath]
  /\ kMounted = [v \in VFSIds |-> FALSE]
  /\ kOverlay = [v \in VFSIds |-> FALSE]
  /\ kFallthrough = [v \in VFSIds |-> TRUE]
  /\ activeVFSList = <<>>
  /\ hooksInstalled = FALSE
  /\ originals = [e \in EntryPoints |-> "null"]
  /\ bindings = [e \in EntryPoints |-> "native"]
  /\ last = NoCall
  /\ tickQueue = <<>>
  /\ cachedSeaVfs = NullVfs
  /\ seaInstances = <<>>
  /\ seaBinding = NotSea
  /\ connection = NewConnection
  /\ pipeline = NewPipeline

Next ==
  \/ \E v \in RoutedVFS, f \in FileInputs : AddFile(v, f.p, f.content)
  \/ \E v \in RoutedVFS, p \in DirPaths : AddDirectory(v, p, NoPopulate)
  \/ \E v \in RoutedVFS, p \in RemovePaths : Remove(v, p)
  \/ \E v \in RoutedVFS, prefix \in MountPrefixes : Mount(v, prefix)
  \/ \E v \in RoutedVFS : Overlay(v)
  \/ \E v \in RoutedVFS : Unmount(v)
  \/ \E arg \in StatArgs : CallModuleStat(arg)
  \/ \E arg \in ReadArgs : CallReadFileSync(arg)
  \/ \E arg \in FsArgs : CallRealpathSync(arg)
  \/ \E arg \in FsArgs : CallLstatSync(arg)
  \/ \E arg \in FsArgs : CallStatSync(arg)
  \/ \E arg \in ResolveArgs : CallResolve(arg)
  \/ \E arg \in LoadArgs : CallLoad(arg)
  \/ CallReturns

Spec == Init /\ [][Next]_vars

(***************************************************************************)
(* Three instances, one mount prefix and one queried file: the inputs that *)
(* let an instance precede two others that hold the same path.             *)
(***************************************************************************)
OrderFileInputs == {f \in FileInputs : f.content # AsyncOnly}

OrderPrefixes == {m \in MountPrefixes : Len(m) > 1}

OrderArgs(args) ==
  {arg \in args : /\ arg = StringArg(arg.p)
                  /\ arg.p \in {<<"/", "a", "/", "b">>, FileUrlAB}}

NextOrder ==
  \/ \E v \in VFSIds, f \in OrderFileInputs : AddFile(v, f.p, f.content)
  \/ \E v \in VFSIds, prefix \in OrderPrefixes : Mount(v, prefix)
  \/ \E v \in VFSIds : Overlay(v)
  \/ \E v \in VFSIds : Unmount(v)
  \/ \E arg \in OrderArgs(StatArgs) : CallModuleStat(arg)
  \/ \E arg \in OrderArgs(ReadArgs) : CallReadFileSync(arg)
  \/ \E arg \in OrderArgs(FsArgs) : CallRealpathSync(arg)
  \/ \E arg \in OrderArgs(FsArgs) : CallLstatSync(arg)
  \/ \E arg \in OrderArgs(FsArgs) : CallStatSync(arg)
  \/ \E arg \in OrderArgs(ResolveArgs) : CallResolve(arg)
  \/ \E arg \in OrderArgs(LoadArgs) : CallLoad(arg)
  \/ CallReturns

SpecOrder == Init /\ [][NextOrder]_vars

(***************************************************************************)
(* module_hooks.js: registerVFS and unregisterVFS called directly, on any  *)
(* of three instances, interleaved with mount, overlay and unmount.        *)
(***************************************************************************)
RegisterVFS(v) ==
  /\ ~InCall
  /\ UNCHANGED beyondVfs
  /\ registerVFS(v)
  /\ last' = Observe("registerVFS", v, [p |-> <<>>],
                     [ok |-> TRUE, index |-> IndexOf(activeVFSList, v)])
  /\ UNCHANGED <<kRoot, modes>>

UnregisterVFS(v) ==
  /\ ~InCall
  /\ UNCHANGED beyondVfs
  /\ unregisterVFS(v)
  /\ last' = Observe("unregisterVFS", v, [p |-> <<>>],
                     [ok |-> TRUE, index |-> IndexOf(activeVFSList, v)])
  /\ UNCHANGED <<kRoot, modes>>

NextRegistry ==
  \/ \E v \in VFSIds : RegisterVFS(v)
  \/ \E v \in VFSIds : UnregisterVFS(v)
  \/ \E v \in VFSIds, prefix \in OrderPrefixes : Mount(v, prefix)
  \/ \E v \in VFSIds : Overlay(v)
  \/ \E v \in VFSIds : Unmount(v)

SpecRegistry == Init /\ [][NextRegistry]_vars

(***************************************************************************)
(* One instance, its tree built and taken apart with paths up to three     *)
(* segments deep and two contents, in every activation state, and queried  *)
(* directly.                                                               *)
(***************************************************************************)
TreeVFS == 1

TreeContents == {"data", "other"}

TreeAddPaths == {<<"/">>, <<"/", "a">>, <<"/", "a", "/", "b">>,
                 <<"/", "a", "/", "b", "/", "c">>, <<"/", "b">>}

TreeDirPaths == {<<"/">>, <<"/", "a">>, <<"/", "a", "/", "b">>}

TreeQueryPaths == TreeAddPaths \cup {<<"/", "a", "/", "b", "/">>}

TreeOptions(op) ==
  IF op \in {"vfs.readFileSync", "vfs.readFile", "vfs.promises.readFile"}
  THEN {"none", "utf8"}
  ELSE IF op \in {"vfs.readdirSync", "vfs.readdir", "vfs.promises.readdir"}
  THEN {"none", "withFileTypes"}
  ELSE {"none"}

NextTree ==
  \/ \E p \in TreeAddPaths, c \in TreeContents : AddFile(TreeVFS, p, c)
  \/ \E p \in TreeDirPaths : AddDirectory(TreeVFS, p, NoPopulate)
  \/ \E p \in TreeAddPaths : Remove(TreeVFS, p)
  \/ \E prefix \in MountPrefixes : Mount(TreeVFS, prefix)
  \/ Overlay(TreeVFS)
  \/ Unmount(TreeVFS)
  \/ \E op \in VfsOps, p \in TreeQueryPaths :
       \E options \in TreeOptions(op) : Query(TreeVFS, op, p, options)
  \/ CallReturns

SpecTree == Init /\ [][NextTree]_vars

(***************************************************************************)
(* One instance to which files and directories, with and without a         *)
(* populate callback, are added at paths that may already hold an entry,   *)
(* the root included, while it is activated and deactivated.               *)
(***************************************************************************)
Populates == {NoPopulate, PopulateAdding({}), PopulateAdding({<<"c">>})}

ReplaceAddPaths == {<<"/", "a">>, <<"/", "a", "/", "b">>}

ReplaceDirPaths == {<<"/">>, <<"/", "a">>, <<"/", "a", "/", "b">>}

NextReplace ==
  \/ \E p \in ReplaceAddPaths : AddFile(TreeVFS, p, "data")
  \/ \E p \in ReplaceDirPaths, populate \in Populates : AddDirectory(TreeVFS, p, populate)
  \/ \E prefix \in MountPrefixes : Mount(TreeVFS, prefix)
  \/ Overlay(TreeVFS)
  \/ Unmount(TreeVFS)
  \/ \E p \in ReplaceAddPaths :
       Query(TreeVFS, "vfs.readdirSync", p, "none")
  \/ CallReturns

SpecReplace == Init /\ [][NextReplace]_vars

(***************************************************************************)
(* Two instances that can hold a file or a directory at the same path /a,  *)
(* or be mounted there, while that path is read, resolved and loaded.      *)
(***************************************************************************)
ShadowAddPaths == {<<"/", "a">>, <<"/", "a", "/", "b">>}

ShadowPrefixes == {<<"/", "a">>}

NextShadow ==
  \/ \E v \in RoutedVFS, p \in ShadowAddPaths : AddFile(v, p, "data")
  \/ \E v \in RoutedVFS, prefix \in ShadowPrefixes : Mount(v, prefix)
  \/ \E v \in RoutedVFS : Overlay(v)
  \/ \E v \in RoutedVFS : Unmount(v)
  \/ CallReadFileSync(StringArg(<<"/", "a">>))
  \/ CallResolve(StringArg(<<"/", "a">>))
  \/ CallLoad(StringArg(FileUrlA))
  \/ CallReturns

SpecShadow == Init /\ [][NextShadow]_vars

(***************************************************************************)
(* One instance on a Windows host, whose current directory is C:\a: files  *)
(* are added, the instance is mounted at a drive root or below it, or      *)
(* made an overlay, and realpathSync is called.                            *)
(***************************************************************************)
WinSep == "\\"

WinAddPaths == {<<"\\", "b">>, <<"C", ":", "\\", "a">>}

WinPrefixes == {<<"C", ":", "\\">>, <<"C", ":", "\\", "m">>, <<"\\", "m", "\\">>}

WinQueryPaths == {<<"C", ":", "\\">>, <<"\\">>, <<"C", ":">>, <<"C", ":", "\\", "m">>,
                  <<"C", ":", "\\", "m", "\\">>, <<"C", ":", "\\", "b">>,
                  <<"C", ":", "/", "a">>, <<"b">>}

NextWindows ==
  \/ \E p \in WinAddPaths : AddFileOn(WinSep, TreeVFS, p, "data")
  \/ \E prefix \in WinPrefixes : MountOn(WinSep, TreeVFS, prefix)
  \/ Overlay(TreeVFS)
  \/ Unmount(TreeVFS)
  \/ \E p \in WinQueryPaths : RealpathSyncOn(WinSep, TreeVFS, p)
  \/ CallReturns

SpecWindows == Init /\ [][NextWindows]_vars

(***************************************************************************)
(* One instance whose callback forms are called while the tree changes     *)
(* between a call and the turn that runs its callback.                     *)
(***************************************************************************)
AsyncAddPaths == {<<"/", "a">>, <<"/", "a", "/", "b">>}

AsyncQueryPaths == {<<"/", "a">>, <<"/", "a", "/", "b">>}

NextAsync ==
  \/ \E p \in AsyncAddPaths : AddFile(TreeVFS, p, "data")
  \/ \E p \in AsyncAddPaths : Remove(TreeVFS, p)
  \/ \E op \in CallbackOps, p \in AsyncQueryPaths :
       \E options \in TreeOptions(op) : Initiate(TreeVFS, op, p, options)
  \/ \E i \in 1..MaxPending : RunCallback(i)
  \/ CallReturns

SpecAsync == Init /\ [][NextAsync]_vars

(***************************************************************************)
(* One instance constructed with any fallthrough option, activated in      *)
(* either mode and reached through the synchronous hooks.                  *)
(***************************************************************************)
FallthroughOptions == {"undefined", "true", "false"}

InitFallthrough ==
  /\ kRoot = [v \in VFSIds |-> VirtualDirectory(NoEntries)]
  /\ kMountPoint = [v \in VFSIds |-> NullPath]
  /\ kMounted = [v \in VFSIds |-> FALSE]
  /\ kOverlay = [v \in VFSIds |-> FALSE]
  /\ \E option \in FallthroughOptions :
       kFallthrough = [v \in VFSIds |-> IF v = TreeVFS THEN ConstructedFallthrough(option)
                                        ELSE TRUE]
  /\ activeVFSList = <<>>
  /\ hooksInstalled = FALSE
  /\ originals = [e \in EntryPoints |-> "null"]
  /\ bindings = [e \in EntryPoints |-> "native"]
  /\ last = NoCall
  /\ tickQueue = <<>>
  /\ cachedSeaVfs = NullVfs
  /\ seaInstances = <<>>
  /\ seaBinding = NotSea
  /\ connection = NewConnection
  /\ pipeline = NewPipeline

NextFallthrough ==
  \/ \E f \in FileInputs : AddFile(TreeVFS, f.p, f.content)
  \/ \E p \in RemovePaths : Remove(TreeVFS, p)
  \/ \E prefix \in MountPrefixes : Mount(TreeVFS, prefix)
  \/ Overlay(TreeVFS)
  \/ Unmount(TreeVFS)
  \/ \E arg \in StatArgs : CallModuleStat(arg)
  \/ \E arg \in ReadArgs : CallReadFileSync(arg)
  \/ \E arg \in FsArgs : CallRealpathSync(arg)
  \/ \E arg \in FsArgs : CallLstatSync(arg)
  \/ \E arg \in FsArgs : CallStatSync(arg)
  \/ CallReturns

SpecFallthrough == InitFallthrough /\ [][NextFallthrough]_vars

(***************************************************************************)
(* A process that is or is not a single executable application, with no,   *)
(* one or two assets, whose program asks for the asset VFS with any        *)
(* options and requires modules under the prefixes.                        *)
(***************************************************************************)
SeaBindings == {NotSea,
                [isSea |-> TRUE, keys |-> <<>>],
                [isSea |-> TRUE, keys |-> << <<"b">> >>],
                [isSea |-> TRUE, keys |-> << <<"/", "b">>, <<"a", "/", "b">> >>],
                [isSea |-> TRUE, keys |-> << <<"b">>, <<"b", "/", "c">> >>]}

SeaOptions == {[prefix |-> prefix, moduleHooks |-> moduleHooks] :
                 prefix \in {NoPrefix, <<"/", "a">>},
                 moduleHooks \in {"undefined", "true", "false"}}

SeaStatArgs == {StringArg(<<"/", "a", "/", "b">>), StringArg(DefaultSeaPrefix \o <<"/", "b">>),
                StringArg(<<"/", "b">>)}

SeaLoaderArgs == {StringArg(FileUrlAB), StringArg(<<"/", "a", "/", "b">>), StringArg(NodeFs)}

InitSea ==
  /\ kRoot = [v \in VFSIds |-> VirtualDirectory(NoEntries)]
  /\ kMountPoint = [v \in VFSIds |-> NullPath]
  /\ kMounted = [v \in VFSIds |-> FALSE]
  /\ kOverlay = [v \in VFSIds |-> FALSE]
  /\ kFallthrough = [v \in VFSIds |-> TRUE]
  /\ activeVFSList = <<>>
  /\ hooksInstalled = FALSE
  /\ originals = [e \in EntryPoints |-> "null"]
  /\ bindings = [e \in EntryPoints |-> "native"]
  /\ last = NoCall
  /\ tickQueue = <<>>
  /\ cachedSeaVfs = NullVfs
  /\ seaInstances = <<>>
  /\ seaBinding \in SeaBindings
  /\ connection = NewConnection
  /\ pipeline = NewPipeline

NextSea ==
  \/ \E options \in SeaOptions : GetSeaVfs(options)
  \/ \E options \in SeaOptions : CreateSeaVfs(options)
  \/ HasSeaAssets
  \/ \E v \in VFSIds : Unmount(v)
  \/ \E arg \in SeaStatArgs : CallModuleStat(arg)
  \/ \E arg \in SeaLoaderArgs : CallResolve(arg)
  \/ \E arg \in SeaLoaderArgs : CallLoad(arg)
  \/ CallReturns

SpecSea == InitSea /\ [][NextSea]_vars

(***************************************************************************)
(* Paths given to normalizePath: an optional drive, an optional root, up   *)
(* to MaxSegments segments joined by either separator, an optional         *)
(* trailing separator.                                                     *)
(***************************************************************************)
MaxSegments == 2

PathSeps == {"/", "\\"}

SegmentInputs == {<<"a">>, <<"b">>, <<".">>, <<".", ".">>}

RECURSIVE JoinWith(_, _)
JoinWith(segs, sep) ==
  IF Len(segs) = 0 THEN <<>>
  ELSE IF Len(segs) = 1 THEN segs[1]
  ELSE segs[1] \o <<sep>> \o JoinWith(Tail(segs), sep)

SegmentLists == UNION {[1..n -> SegmentInputs] : n \in 0..MaxSegments}

NormalizeInputs ==
  {drive \o root \o JoinWith(segs, sep) \o trailing :
     drive \in {<<>>, <<"C", ":">>},
     root \in {<<>>, <<"/">>, <<"\\">>},
     segs \in SegmentLists,
     sep \in PathSeps,
     trailing \in {<<>>, <<"/">>, <<"\\">>}}
  \ {<<x, y>> : x \in PathSeps, y \in PathSeps}

NextNormalize ==
  \/ \E sep \in PathSeps, p \in NormalizeInputs : Normalize(sep, p)
  \/ NormalizeAgain
  \/ CallReturns

SpecNormalize == Init /\ [][NextNormalize]_vars

(***************************************************************************)
(* Requests of one connection, each with a handler and an onError option   *)
(* of any behaviour.                                                       *)
(***************************************************************************)
Handlers == {Does("returns", Response("200")), Does("resolves", Response("200")),
             Does("bodyFails", Response("200")),
             Does("throws", "HandlerError"), Does("rejects", "HandlerError"),
             Does("returns", StringValue), Does("returns", UndefinedValue),
             Does("resolves", UndefinedValue)}

OnErrors == {Does("absent", UndefinedValue),
             Does("returns", Response("503")), Does("resolves", Response("502")),
             Does("throws", "OnErrorError"), Does("rejects", "OnErrorError"),
             Does("returns", UndefinedValue), Does("returns", StringValue)}

NextServe ==
  \/ \E handler \in Handlers, onError \in OnErrors, keepAlive \in BOOLEAN :
       InvokeHandler(handler, onError, keepAlive)

SpecServe == Init /\ [][NextServe]_vars

(***************************************************************************)
(* One connection on which a client writes requests, with or without a     *)
(* body, with or without keep-alive, handled by a handler that returns a   *)
(* Response or throws.                                                     *)
(***************************************************************************)
Methods == {"GET", "POST"}

PipelineHandlers == {Does("returns", Response("200")), Does("throws", "HandlerError")}

Requests ==
  [method : Methods, keepAlive : BOOLEAN, handler : PipelineHandlers,
   onError : {Does("absent", UndefinedValue)}]

NextPipeline ==
  \/ \E request \in Requests : Receive(request)
  \/ OnHeadersComplete
  \/ \E id \in 1..MaxRequests : Pull(id)
  \/ OnMessageComplete
  \/ \E id \in 1..MaxRequests : Respond(id)

SpecPipeline == Init /\ [][NextPipeline]_vars

(***************************************************************************)
(* Vocabulary of the properties                                            *)
(***************************************************************************)
SyncEntryPoints == {"Module._stat", "readFileSync", "realpathSync", "lstatSync", "statSync"}

LoaderEntryPoints == {"resolve", "load"}

ProbePaths == QueryPaths \cup {<<"/", "b">>, <<"/", "a", "/">>, <<"/", "/", "a">>}

\* The normalized path a hooked call is about; <<>> when it has none
\* (a file descriptor, a built-in, a bare or unresolvable specifier).
CallPath(entryPoint, arg) ==
  IF entryPoint = "Module._stat" THEN normalizePath(arg.p)
  ELSE IF entryPoint \in SyncEntryPoints
       THEN IF IsPathArg(arg) THEN normalizePath(arg.p) ELSE <<>>
  ELSE IF StartsWith(arg.p, NodeScheme) THEN <<>>
  ELSE IF entryPoint = "resolve"
       THEN IF ResolveCheckPath(arg) = <<>> THEN <<>>
            ELSE normalizePath(ResolveCheckPath(arg))
  ELSE IF StartsWith(arg.p, FileScheme) THEN normalizePath(fileURLToPath(arg.p))
  ELSE <<>>

\* Position in the list of the first instance that claims p; 0 when none does.
FirstClaimer(list, p) ==
  IF \E i \in 1..Len(list) : shouldHandle(list[i], p)
  THEN CHOOSE i \in 1..Len(list) :
         shouldHandle(list[i], p) /\ \A j \in 1..(i - 1) : ~shouldHandle(list[j], p)
  ELSE 0

\* What instance v itself answers to the operation behind the entry point.
OwnAnswer(v, entryPoint, p, arg) ==
  CASE entryPoint = "Module._stat" ->
         IF internalModuleStat(v, p) >= 0
         THEN Return([t |-> "code", code |-> internalModuleStat(v, p)])
         ELSE Throw(createENOENT("stat", p))
    [] entryPoint = "readFileSync" -> readFileSync(v, p, arg.options)
    [] entryPoint = "realpathSync" -> realpathSync(v, p)
    [] entryPoint \in {"lstatSync", "statSync"} -> statSync(v, p)
    [] entryPoint = "resolve" ->
         IF internalModuleStat(v, p) = 0
         THEN Return([t |-> "resolved", url |-> FileScheme \o p,
                      format |-> getFormatFromExtension(p), shortCircuit |-> TRUE])
         ELSE Throw(createENOENT("resolve", p))
    [] entryPoint = "load" ->
         LET r == readFileSync(v, p, "utf8") IN
         IF r.ok
         THEN Return([t |-> "loaded",
                      format |-> IF arg.format # "none" THEN arg.format
                                 ELSE getFormatFromExtension(p),
                      source |-> r.val, shortCircuit |-> TRUE])
         ELSE r

CanServe(v, entryPoint, p, arg) == shouldHandle(v, p) /\ OwnAnswer(v, entryPoint, p, arg).ok

\* Position of the earliest instance that could serve the call; 0 when none.
FirstServer(list, entryPoint, p, arg) ==
  IF \E i \in 1..Len(list) : CanServe(list[i], entryPoint, p, arg)
  THEN CHOOSE i \in 1..Len(list) :
         /\ CanServe(list[i], entryPoint, p, arg)
         /\ \A j \in 1..(i - 1) : ~CanServe(list[j], entryPoint, p, arg)
  ELSE 0

Visible(res) == [kind |-> res.kind, by |-> res.by, val |-> res.val, origCalls |-> res.origCalls]

Active(v) == \E i \in 1..Len(activeVFSList) : activeVFSList[i] = v

RECURSIVE EntryAt(_, _)
EntryAt(root, segments) ==
  IF Len(segments) = 0 THEN root
  ELSE LET parent == EntryAt(root, SubSeq(segments, 1, Len(segments) - 1))
           name == segments[Len(segments)]
       IN IF parent.kind = "dir" /\ name \in DOMAIN parent.entries
          THEN parent.entries[name]
          ELSE Null

(***************************************************************************)
(* C1  Authoritative miss in the synchronous hooks: when the first         *)
(* instance in registration order that claims the path is Mounted and the  *)
(* path does not resolve in its tree, Module._stat returns -2 and          *)
(* readFileSync, realpathSync, lstatSync and statSync throw ENOENT; no     *)
(* later instance is consulted and the saved original is not invoked.      *)
(***************************************************************************)
C1_Miss ==
  LET p == CallPath(last.op, last.arg)
      k == FirstClaimer(activeVFSList, p)
  IN /\ InCall
     /\ last.op \in SyncEntryPoints
     /\ p # <<>>
     /\ k # 0
     /\ kMounted[activeVFSList[k]]
     /\ resolveEntry(activeVFSList[k], p) = Null

C1_AuthoritativeMissSync ==
  C1_Miss =>
    LET k == FirstClaimer(activeVFSList, CallPath(last.op, last.arg)) IN
    /\ IF last.op = "Module._stat"
       THEN last.res.kind = "vfs" /\ last.res.val = [t |-> "code", code |-> -2]
       ELSE last.res.kind = "throw" /\ last.res.val.code = "ENOENT"
    /\ last.res.by = activeVFSList[k]
    /\ last.res.consulted = SubSeq(activeVFSList, 1, k)
    /\ last.res.origCalls = <<>>

C1_Witness ==
  /\ C1_Miss
  /\ last.op = "readFileSync"
  /\ Len(activeVFSList) = 2
  /\ FirstClaimer(activeVFSList, CallPath(last.op, last.arg)) = 1
  /\ CanServe(activeVFSList[2], last.op, CallPath(last.op, last.arg), last.arg)
  /\ last.res.kind = "throw"

(***************************************************************************)
(* C2  Authoritative miss in the module-loader hooks: when the resolve or  *)
(* load hook is called for a path that the first claiming instance, a      *)
(* Mounted one, does not hold, the search stops there: no later instance   *)
(* is consulted and the call is not passed to the next resolver/loader.    *)
(***************************************************************************)
C2_Miss ==
  LET p == CallPath(last.op, last.arg)
      k == FirstClaimer(activeVFSList, p)
  IN /\ InCall
     /\ last.op \in LoaderEntryPoints
     /\ p # <<>>
     /\ k # 0
     /\ kMounted[activeVFSList[k]]
     /\ resolveEntry(activeVFSList[k], p) = Null

C2_AuthoritativeMissLoader ==
  C2_Miss =>
    LET k == FirstClaimer(activeVFSList, CallPath(last.op, last.arg)) IN
    /\ last.res.kind # "orig"
    /\ last.res.origCalls = <<>>
    /\ last.res.consulted = SubSeq(activeVFSList, 1, k)

(***************************************************************************)
(* C3  First match wins.  As claimed: whenever several active instances    *)
(* could serve the call, the result is the one produced by the earliest of *)
(* them, nothing after it is consulted and the original is not invoked.    *)
(* As amended: this holds when the earliest instance that claims the path  *)
(* can serve it.                                                           *)
(***************************************************************************)
C3_ServedBy(k) ==
  LET p == CallPath(last.op, last.arg) IN
  /\ last.res.kind = "vfs"
  /\ last.res.by = activeVFSList[k]
  /\ last.res.val = OwnAnswer(activeVFSList[k], last.op, p, last.arg).val
  /\ last.res.consulted = SubSeq(activeVFSList, 1, k)
  /\ last.res.origCalls = <<>>

C3_Servers ==
  LET p == CallPath(last.op, last.arg) IN
  {i \in 1..Len(activeVFSList) : CanServe(activeVFSList[i], last.op, p, last.arg)}

C4_MountOwnsPrefix ==
  LET p == CallPath(last.op, last.arg)
      k == FirstClaimer(activeVFSList, p)
  IN (InCall /\ last.op \in SyncEntryPoints /\ p # <<>> /\ k # 0 /\ kMounted[activeVFSList[k]])
       => /\ last.res.kind \in {"vfs", "throw"}
          /\ last.res.by = activeVFSList[k]
          /\ last.res.origCalls = <<>>

(***************************************************************************)
(* C5  Overlay misses are non-claims: an Overlay instance in whose tree    *)
(* the path of the call does not resolve has no influence on the call;     *)
(* the outcome is the one the same call has with that instance left out    *)
(* of the active list.                                                     *)
(***************************************************************************)
C5_OverlayMissAt(i) ==
  /\ InCall
  /\ CallPath(last.op, last.arg) # <<>>
  /\ i \in 1..Len(activeVFSList)
  /\ kOverlay[activeVFSList[i]]
  /\ resolveEntry(activeVFSList[i], CallPath(last.op, last.arg)) = Null

C5_OverlayMissIsNonClaim ==
  \A i \in 1..Len(activeVFSList) :
    C5_OverlayMissAt(i) =>
      Visible(last.res) = Visible(Dispatch(Splice1(activeVFSList, i - 1), last.op, last.arg))

C5_Witness ==
  /\ C5_OverlayMissAt(1)
  /\ Len(activeVFSList) = 2
  /\ last.res.kind = "vfs"
  /\ last.res.by = activeVFSList[2]

(***************************************************************************)
(* C6  Fallthrough equals the pre-hook behaviour: when no active instance  *)
(* claims the path (also with an empty list, and for arguments that are    *)
(* not paths), the entry point invokes the saved original exactly once     *)
(* with the caller's arguments and passes its result or error on.          *)
(***************************************************************************)
C6_Unclaimed ==
  LET p == CallPath(last.op, last.arg) IN
  /\ InCall
  /\ \/ p = <<>>
     \/ \A i \in 1..Len(activeVFSList) : ~shouldHandle(activeVFSList[i], p)

C6_FallthroughIsOriginal ==
  C6_Unclaimed =>
    /\ last.res.kind = "orig"
    /\ last.res.origCalls = <<last.arg>>
    /\ last.res.val = CallOriginal("native", last.op, last.arg)

C6_Witness ==
  /\ C6_Unclaimed
  /\ hooksInstalled
  /\ activeVFSList = <<>>
  /\ last.op = "statSync"
  /\ last.arg.p = <<"/", "a", "/", "b", "/">>
  /\ last.res.origCalls = <<last.arg>>

C6_WitnessClaimedElsewhere ==
  /\ C6_Unclaimed
  /\ Len(activeVFSList) = 2
  /\ last.arg.t = "fd"

(***************************************************************************)
(* C7  Mounted routing predicate: for an instance Mounted at m,            *)
(* shouldHandle(p) is true iff normalize(p) is m or m followed by a        *)
(* separator and more, whatever the tree holds; a sibling that only        *)
(* shares a string prefix with m is not claimed and does not resolve.      *)
(***************************************************************************)
C7_Under(np, m) ==
  /\ Len(np) >= Len(m)
  /\ \A i \in 1..Len(m) : np[i] = m[i]
  /\ (Len(np) = Len(m) \/ np[Len(m) + 1] = "/")

C7_MountedRoutingPredicate ==
  \A v \in VFSIds :
    kMounted[v] =>
      \A p \in ProbePaths :
        /\ shouldHandle(v, p) = C7_Under(normalizePath(p), kMountPoint[v])
        /\ ~C7_Under(normalizePath(p), kMountPoint[v]) => resolveEntry(v, p) = Null

C7_Witness ==
  \E v \in VFSIds :
    /\ kMounted[v]
    /\ kMountPoint[v] = <<"/", "a">>
    /\ shouldHandle(v, <<"/", "a", "/", "b">>)
    /\ resolveEntry(v, <<"/", "a", "/", "b">>) = Null
    /\ ~shouldHandle(v, <<"/", "a", "b">>)
    /\ last.op = "mount"

(***************************************************************************)
(* C8  Overlay routing predicate: for an instance in Overlay mode, in      *)
(* every tree state shouldHandle(p) is true iff p resolves to an entry of  *)
(* the tree, so it follows addFile, addDirectory and remove done after     *)
(* overlay().                                                              *)
(***************************************************************************)
C8_OverlayRoutingPredicate ==
  \A v \in VFSIds :
    kOverlay[v] =>
      /\ \A p \in ProbePaths :
           shouldHandle(v, p) = (EntryAt(kRoot[v], splitPath(normalizePath(p))) # Null)
      /\ (last.v = v /\ last.op \in {"addFile", "addDirectory"} /\ last.res.ok)
           => shouldHandle(v, last.arg.p)
      /\ (last.v = v /\ last.op = "remove" /\ last.res.ok)
           => ~shouldHandle(v, last.arg.p)

C8_WitnessAdded ==
  /\ last.op = "addFile"
  /\ last.res.ok
  /\ kOverlay[last.v]
  /\ shouldHandle(last.v, last.arg.p)

C8_Witness ==
  /\ last.op = "remove"
  /\ last.res.ok
  /\ kOverlay[last.v]
  /\ last.arg.p = <<"/", "a", "/", "b">>
  /\ ~shouldHandle(last.v, <<"/", "a", "/", "b">>)
  /\ shouldHandle(last.v, <<"/", "a">>)

(***************************************************************************)
(* C9  Registry membership tracks activation: an instance is in the        *)
(* active list iff it is Mounted or Overlay; an instance that is in        *)
(* neither mode (new, or after unmount) is not in the list and its         *)
(* shouldHandle is false for every path.                                   *)
(***************************************************************************)
C9_MembershipTracksActivation ==
  \A v \in VFSIds :
    /\ Active(v) <=> (kMounted[v] \/ kOverlay[v])
    /\ ~Active(v) => \A p \in ProbePaths : ~shouldHandle(v, p)

C9_Witness ==
  /\ last.op = "unmount"
  /\ last.res.index # -1
  /\ ~Active(last.v)
  /\ Len(activeVFSList) = 1
  /\ kRoot[last.v] # VirtualDirectory(NoEntries)

(***************************************************************************)
(* C10  Mode invariant: after any sequence of mount, overlay and unmount   *)
(* calls, failing ones included, an instance is never both Mounted and     *)
(* Overlay, and its mount prefix is non-null iff it is Mounted.            *)
(***************************************************************************)
C10_ModeInvariant ==
  \A v \in VFSIds :
    /\ ~(kMounted[v] /\ kOverlay[v])
    /\ (kMountPoint[v] # NullPath) <=> kMounted[v]

C10_Witness ==
  /\ last.op \in {"mount", "overlay"}
  /\ ~last.res.ok
  /\ kMounted[last.v]
  /\ kMountPoint[last.v] = <<"/", "a">>

(***************************************************************************)
(* C11  Activating an active instance fails without effect: a mount() or   *)
(* overlay() call on an instance that is Mounted or Overlay throws, and    *)
(* the step leaves every tree, every mode and prefix, and the registry     *)
(* (the active list, its order, the installed hooks) as they were.         *)
(***************************************************************************)
C11_ActivationOfActiveFails ==
  [][\A v \in VFSIds :
       (last'.op \in {"mount", "overlay"} /\ last'.v = v /\ (kMounted[v] \/ kOverlay[v]))
         => (last'.res.ok = FALSE /\ UNCHANGED <<kRoot, modes, registry>>)]_vars

C11_Witness ==
  /\ last.op = "mount"
  /\ last.res.ok = FALSE
  /\ kOverlay[last.v]
  /\ Len(activeVFSList) = 2

(***************************************************************************)
(* C12  Hooks are installed at most once: installation happens in the step *)
(* of the first registration; from then on the installed flag, the saved   *)
(* originals and the bindings never change, the originals are the native   *)
(* implementations and never a wrapper, also while the active list is      *)
(* empty.                                                                  *)
(***************************************************************************)
C12_Installed ==
  IF hooksInstalled
  THEN \A e \in EntryPoints : originals[e] = "native" /\ bindings[e] = "vfs"
  ELSE /\ activeVFSList = <<>>
       /\ \A e \in EntryPoints : originals[e] = "null" /\ bindings[e] = "native"

C12_HooksInstalledOnce ==
  [][/\ C12_Installed
     /\ C12_Installed'
     /\ hooksInstalled => (hooksInstalled' /\ originals' = originals /\ bindings' = bindings)
     /\ (~hooksInstalled /\ hooksInstalled')
          => (activeVFSList = <<>> /\ Len(activeVFSList') = 1)]_vars

C12_Witness ==
  /\ hooksInstalled
  /\ activeVFSList = <<>>
  /\ last.op = "unmount"
  /\ last.res.index = 0

(***************************************************************************)
(* C13  register and unregister are idempotent: the active list never      *)
(* holds an instance twice; a registerVFS call for an instance already in  *)
(* the list and an unregisterVFS call for one that is not in it leave the  *)
(* list as it was; otherwise register appends the instance and unregister  *)
(* removes it, keeping the order of the others.                            *)
(***************************************************************************)
C13_NoDuplicates(list) ==
  \A i, j \in 1..Len(list) : list[i] = list[j] => i = j

C13_RegistryIdempotent ==
  [][/\ C13_NoDuplicates(activeVFSList)
     /\ C13_NoDuplicates(activeVFSList')
     /\ \A v \in VFSIds :
          /\ (last'.op = "registerVFS" /\ last'.v = v)
               => activeVFSList' = IF Active(v) THEN activeVFSList
                                   ELSE Append(activeVFSList, v)
          /\ (last'.op = "unregisterVFS" /\ last'.v = v)
               => activeVFSList' = SelectSeq(activeVFSList, LAMBDA w : w # v)]_vars

C13_Witness ==
  /\ last.op = "registerVFS"
  /\ last.res.index = 1
  /\ Len(activeVFSList) = 3

(***************************************************************************)
(* C14  The module-loader hooks never claim a directory or a built-in: a   *)
(* short-circuit result comes only from an active instance that claims the *)
(* path and holds a file there; a 'node:' specifier or URL, and a path     *)
(* that is a directory in the first instance that claims and holds it, go  *)
(* to the next resolver/loader with the caller's arguments.                *)
(***************************************************************************)
C14_Delegated ==
  /\ last.res.kind = "orig"
  /\ last.res.origCalls = <<last.arg>>
  /\ last.res.val = CallOriginal(originals[last.op], last.op, last.arg)

C14_FirstHolder(p) ==
  LET holders == {i \in 1..Len(activeVFSList) :
                    /\ shouldHandle(activeVFSList[i], p)
                    /\ resolveEntry(activeVFSList[i], p) # Null}
  IN IF holders = {} THEN 0
     ELSE CHOOSE i \in holders : \A j \in holders : i <= j

C14_DirectoryClaimed ==
  LET p == CallPath(last.op, last.arg) IN
  /\ InCall
  /\ bindings[last.op] = "vfs"
  /\ last.op \in LoaderEntryPoints
  /\ p # <<>>
  /\ C14_FirstHolder(p) # 0
  /\ resolveEntry(activeVFSList[C14_FirstHolder(p)], p).kind = "dir"

C14_LoaderNeverClaimsDirectoryOrBuiltin ==
  (InCall /\ last.op \in LoaderEntryPoints /\ bindings[last.op] = "vfs") =>
    LET p == CallPath(last.op, last.arg) IN
    /\ last.res.kind = "vfs" =>
         /\ Active(last.res.by)
         /\ p # <<>>
         /\ shouldHandle(last.res.by, p)
         /\ resolveEntry(last.res.by, p) # Null
         /\ resolveEntry(last.res.by, p).kind = "file"
         /\ last.res.val.shortCircuit
    /\ StartsWith(last.arg.p, NodeScheme) => (C14_Delegated /\ last.res.consulted = <<>>)
    /\ C14_DirectoryClaimed => C14_Delegated

C14_Witness ==
  /\ C14_DirectoryClaimed
  /\ last.op = "resolve"
  /\ kMounted[activeVFSList[1]]
  /\ C14_FirstHolder(CallPath(last.op, last.arg)) = 1
  /\ C14_Delegated

C14_WitnessBuiltin ==
  /\ InCall
  /\ last.op = "load"
  /\ StartsWith(last.arg.p, NodeScheme)
  /\ bindings[last.op] = "vfs"
  /\ Len(activeVFSList) = 2
  /\ C14_Delegated

(***************************************************************************)
(* C15  addFile contract: an addFile(p, content) step throws exactly when  *)
(* p is the root or an existing proper ancestor of p is a file, and then   *)
(* the tree is as it was; otherwise the file with that content is at p,    *)
(* every proper ancestor of p is a directory, a missing ancestor has been  *)
(* created holding only the next segment, and an existing one has gained   *)
(* at most the next segment.                                               *)
(***************************************************************************)
C15_Segments == splitPath(normalizePath(last'.arg.p))

C15_Ancestor(i) == SubSeq(C15_Segments, 1, i)

C15_MustFail ==
  \/ Len(C15_Segments) = 0
  \/ \E i \in 1..(Len(C15_Segments) - 1) :
       EntryAt(kRoot[last'.v], C15_Ancestor(i)).kind = "file"

C15_Added ==
  LET v == last'.v
      n == Len(C15_Segments)
  IN /\ EntryAt(kRoot'[v], C15_Segments) = VirtualFile(last'.arg.content)
     /\ \A i \in 0..(n - 1) :
          LET before == EntryAt(kRoot[v], C15_Ancestor(i))
              after == EntryAt(kRoot'[v], C15_Ancestor(i))
          IN /\ after.kind = "dir"
             /\ DOMAIN after.entries =
                  (IF before.kind = "dir" THEN DOMAIN before.entries ELSE {})
                    \cup {C15_Segments[i + 1]}

C15_AddFileContract ==
  [][last'.op = "addFile" =>
       /\ last'.res.ok = ~C15_MustFail
       /\ C15_MustFail => kRoot' = kRoot
       /\ ~C15_MustFail => C15_Added]_vars

C15_Witness ==
  /\ last.op = "addFile"
  /\ ~last.res.ok
  /\ last.arg.p = <<"/", "a", "/", "b", "/", "c">>
  /\ EntryAt(kRoot[last.v], <<<<"a">>, <<"b">>>>).kind = "file"

C15_WitnessCreated ==
  /\ last.op = "addFile"
  /\ last.res.ok
  /\ last.arg.p = <<"/", "a", "/", "b">>
  /\ DOMAIN kRoot[last.v].entries = {<<"a">>}
  /\ kMounted[last.v]

(***************************************************************************)
(* C16  Added files persist until removed: in an instance that is not      *)
(* Mounted, existsSync(p) is true and readFileSync(p) returns content      *)
(* exactly when the tree holds a file with that content at p; a successful *)
(* addFile(p, content) puts it there, and it stays there over every later  *)
(* step other than a remove() of p or of an ancestor of p and an add at p  *)
(* itself -- in particular over addFile and addDirectory on other paths.   *)
(***************************************************************************)
C16_Readable(v, p, c) ==
  /\ existsSync(v, p)
  /\ readFileSync(v, p, "none") = Encoded(c, "none")

C16_Held(root, p, c) == EntryAt(root, splitPath(normalizePath(p))) = VirtualFile(c)

C16_IsAncestorOrSelf(q, p) ==
  LET qs == splitPath(normalizePath(q))
      ps == splitPath(normalizePath(p))
  IN Len(qs) <= Len(ps) /\ SubSeq(ps, 1, Len(qs)) = qs

C16_Ends(v, p) ==
  /\ last'.v = v
  /\ \/ last'.op = "remove" /\ C16_IsAncestorOrSelf(last'.arg.p, p)
     \/ /\ last'.op \in {"addFile", "addDirectory"}
        /\ normalizePath(last'.arg.p) = normalizePath(p)

C16_AddAtAncestor(v, p) ==
  /\ last'.v = v
  /\ last'.op \in {"addFile", "addDirectory"}
  /\ C16_IsAncestorOrSelf(last'.arg.p, p)

C16_AddedFilesPersist ==
  [][\A v \in VFSIds, p \in TreeAddPaths, c \in TreeContents :
       /\ ~kMounted[v] => (C16_Readable(v, p, c) <=> C16_Held(kRoot[v], p, c))
       /\ (/\ last'.op = "addFile"
           /\ last'.v = v
           /\ last'.arg = [p |-> p, content |-> c]
           /\ last'.res.ok) => C16_Held(kRoot'[v], p, c)
       /\ (C16_Held(kRoot[v], p, c) /\ ~kMounted[v] /\ ~C16_Ends(v, p))
            => C16_Held(kRoot'[v], p, c)]_vars

\* What does hold: the same, when an add at an ancestor of p also ends it.
C16_PersistsUnlessAncestorReplaced ==
  [][\A v \in VFSIds, p \in TreeAddPaths, c \in TreeContents :
       /\ ~kMounted[v] => (C16_Readable(v, p, c) <=> C16_Held(kRoot[v], p, c))
       /\ (/\ last'.op = "addFile"
           /\ last'.v = v
           /\ last'.arg = [p |-> p, content |-> c]
           /\ last'.res.ok) => C16_Held(kRoot'[v], p, c)
       /\ (/\ C16_Held(kRoot[v], p, c)
           /\ ~kMounted[v]
           /\ ~C16_Ends(v, p)
           /\ ~C16_AddAtAncestor(v, p))
            => C16_Held(kRoot'[v], p, c)]_vars

(***************************************************************************)
(* C17  remove contract, in every activation state and with p read as the  *)
(* path addFile takes: a remove('/') step returns false; a remove(p) step  *)
(* for a p the tree does not hold returns false and leaves the tree as it  *)
(* was; a remove(p) step for a p the tree holds returns true, the tree no  *)
(* longer holds p, and existsSync(p) is false afterwards.                  *)
(***************************************************************************)
C17_Segments == splitPath(normalizePath(last'.arg.p))

C17_Contract(v) ==
  /\ (last.op = "remove" /\ last.v = v /\ last.res.ok) => ~existsSync(v, last.arg.p)
  /\ (last'.op = "remove" /\ last'.v = v) =>
       IF C17_Segments = <<>> \/ EntryAt(kRoot[v], C17_Segments) = Null
       THEN last'.res.ok = FALSE /\ kRoot' = kRoot
       ELSE last'.res.ok = TRUE /\ EntryAt(kRoot'[v], C17_Segments) = Null

C17_RemoveContract ==
  [][\A v \in VFSIds : C17_Contract(v)]_vars

\* What does hold: the contract for steps taken while the instance is not Mounted.
C17_RemoveContractUnlessMounted ==
  [][\A v \in VFSIds : (~kMounted[v] /\ ~kMounted'[v]) => C17_Contract(v)]_vars

(***************************************************************************)
(* C18  has() is independent of mount state: in every state has(p) is true *)
(* exactly when the tree holds an entry at p, read as the path addFile     *)
(* takes, whether the instance is Unmounted, Overlay or Mounted.           *)
(***************************************************************************)
C18_HasIgnoresMountState ==
  \A v \in VFSIds, p \in TreeQueryPaths :
    has(v, p) = (EntryAt(kRoot[v], splitPath(normalizePath(p))) # Null)

\* What does hold: the same for an instance that is not Mounted.
C18_HasReadsTreeUnlessMounted ==
  \A v \in VFSIds, p \in TreeQueryPaths :
    ~kMounted[v] => has(v, p) = (EntryAt(kRoot[v], splitPath(normalizePath(p))) # Null)

(***************************************************************************)
(* C19  NotFound tagging: a query for a path that does not resolve ends   *)
(* as follows: statSync and lstatSync throw ENOENT tagged 'stat',          *)
(* readFileSync 'open', readdirSync 'scandir', realpathSync 'realpath',    *)
(* each carrying the path as given; existsSync returns false and           *)
(* internalModuleStat returns -2 without throwing; and the step leaves     *)
(* every tree as it was.  In an instance that is not Mounted a path fails  *)
(* to resolve exactly when the tree does not hold it (a segment is         *)
(* missing, or a component on the way is a file).                          *)
(***************************************************************************)
C19_Ops == {"vfs.statSync", "vfs.lstatSync", "vfs.readFileSync", "vfs.readdirSync",
            "vfs.realpathSync", "vfs.existsSync", "vfs.internalModuleStat"}

C19_Expected(op, p) ==
  CASE op \in {"vfs.statSync", "vfs.lstatSync"} -> Throw(createENOENT("stat", p))
    [] op = "vfs.readFileSync" -> Throw(createENOENT("open", p))
    [] op = "vfs.readdirSync" -> Throw(createENOENT("scandir", p))
    [] op = "vfs.realpathSync" -> Throw(createENOENT("realpath", p))
    [] op = "vfs.existsSync" -> Return(Bool(FALSE))
    [] op = "vfs.internalModuleStat" -> Return(Code(-2))

C19_NotFoundTagging ==
  [][last'.op \in C19_Ops =>
       LET v == last'.v
           p == last'.arg.p
           absent == resolveEntry(v, p) = Null
       IN /\ kRoot' = kRoot
          /\ ~kMounted[v] => (absent <=> EntryAt(kRoot[v], splitPath(normalizePath(p))) = Null)
          /\ absent => last'.res = C19_Expected(last'.op, p)]_vars

C19_Witness ==
  /\ last.op = "vfs.readdirSync"
  /\ last.arg.p = <<"/", "a", "/", "b">>
  /\ EntryAt(kRoot[last.v], <<<<"a">>>>).kind = "file"
  /\ last.res = Throw(createENOENT("scandir", last.arg.p))

C19_WitnessMissingSegment ==
  /\ last.op = "vfs.internalModuleStat"
  /\ last.arg.p = <<"/", "a", "/", "b", "/", "c">>
  /\ EntryAt(kRoot[last.v], <<<<"a">>>>).kind = "dir"
  /\ EntryAt(kRoot[last.v], <<<<"a">>, <<"b">>>>) = Null
  /\ kOverlay[last.v]
  /\ last.res = Return(Code(-2))

(***************************************************************************)
(* C20  Kind mismatch: readFileSync, and readFile in callback and promise  *)
(* form, on a path that resolves to a directory end with EISDIR (tagged    *)
(* 'read', carrying the path as given) and deliver no content;             *)
(* readdirSync, and readdir in callback and promise form, on a path that   *)
(* resolves to a file end with ENOTDIR (tagged 'scandir') and deliver no   *)
(* listing.                                                                *)
(***************************************************************************)
C20_ReadFileOps == {"vfs.readFileSync", "vfs.readFile", "vfs.promises.readFile"}

C20_ReaddirOps == {"vfs.readdirSync", "vfs.readdir", "vfs.promises.readdir"}

C20_KindMismatch ==
  last.op \in C20_ReadFileOps \cup C20_ReaddirOps =>
    LET entry == resolveEntry(last.v, last.arg.p) IN
    /\ (last.op \in C20_ReadFileOps /\ entry # Null /\ entry.kind = "dir")
         => last.res = Throw(createEISDIR("read", last.arg.p))
    /\ (last.op \in C20_ReaddirOps /\ entry # Null /\ entry.kind = "file")
         => last.res = Throw(createENOTDIR("scandir", last.arg.p))

C20_Witness ==
  /\ last.op = "vfs.readdir"
  /\ last.arg.p = <<"/", "a", "/", "b">>
  /\ EntryAt(kRoot[last.v], <<<<"a">>, <<"b">>>>).kind = "file"
  /\ ~last.res.ok
  /\ last.res.val.code = "ENOTDIR"

C20_WitnessDirectory ==
  /\ last.op = "vfs.promises.readFile"
  /\ last.arg.p = <<"/", "a">>
  /\ EntryAt(kRoot[last.v], <<<<"a">>>>).kind = "dir"
  /\ ~last.res.ok
  /\ last.res.val.code = "EISDIR"

(***************************************************************************)
(* C21  Async results equal sync results: with fixed contents, what the    *)
(* callback of readFile, stat, lstat, readdir or realpath receives, and    *)
(* what the promise form settles to, is the success value that             *)
(* readFileSync, statSync, lstatSync, readdirSync or realpathSync returns  *)
(* for the same arguments in the same state, or an error with the same     *)
(* code and operation tag as the one it throws.                            *)
(***************************************************************************)
C21_SyncOf(op) ==
  CASE op \in {"vfs.readFile", "vfs.promises.readFile"} -> "vfs.readFileSync"
    [] op \in {"vfs.stat", "vfs.promises.stat"} -> "vfs.statSync"
    [] op \in {"vfs.lstat", "vfs.promises.lstat"} -> "vfs.lstatSync"
    [] op \in {"vfs.readdir", "vfs.promises.readdir"} -> "vfs.readdirSync"
    [] op \in {"vfs.realpath", "vfs.promises.realpath"} -> "vfs.realpathSync"

C21_AsyncOps == {"vfs.readFile", "vfs.promises.readFile", "vfs.stat", "vfs.promises.stat",
                 "vfs.lstat", "vfs.promises.lstat", "vfs.readdir", "vfs.promises.readdir",
                 "vfs.realpath", "vfs.promises.realpath"}

C21_SameOutcome(a, s) ==
  IF a.ok THEN a = s
  ELSE ~s.ok /\ a.val.code = s.val.code /\ a.val.syscall = s.val.syscall

C21_AsyncEqualsSync ==
  last.op \in C21_AsyncOps =>
    C21_SameOutcome(last.res,
                    VfsCall(last.v, C21_SyncOf(last.op), last.arg.p, last.arg.options))

C21_Witness ==
  /\ last.op = "vfs.realpath"
  /\ last.arg.p = <<"/", "a", "/", "b", "/">>
  /\ last.res = Return([t |-> "path", path |-> <<"/", "a", "/", "b">>])

C21_WitnessPromiseContent ==
  /\ last.op = "vfs.promises.readFile"
  /\ last.arg.options = "utf8"
  /\ last.res = Return([t |-> "string", data |-> "other", encoding |-> "utf8"])

C21_WitnessError ==
  /\ last.op = "vfs.promises.lstat"
  /\ last.res = Throw(createENOENT("stat", last.arg.p))

(***************************************************************************)
(* C22  Async operations never complete synchronously: every step that     *)
(* invokes the callback of readFile, stat, lstat, readdir, realpath or     *)
(* access, with a success value or with an error, starts with no call on   *)
(* the stack and takes the callback, with the outcome it receives, from    *)
(* the queue where an earlier call left it; the call that starts the       *)
(* operation returns without having invoked it.                            *)
(***************************************************************************)
C22_Pending(v, arg, outcome) ==
  \E i \in 1..Len(tickQueue) :
    tickQueue[i].v = v /\ tickQueue[i].arg = arg /\ tickQueue[i].outcome = outcome

C22_CallbackOnLaterTurn ==
  [][/\ last'.op = "callback"
        => /\ ~InCall
           /\ last.op # "initiate"
           /\ C22_Pending(last'.v, last'.arg, last'.res)
           /\ Len(tickQueue') = Len(tickQueue) - 1
     /\ last'.op = "initiate"
        => /\ last'.res = Return(Undefined)
           /\ Len(tickQueue') = Len(tickQueue) + 1]_vars

C22_Witness ==
  /\ last.op = "callback"
  /\ last.arg.op = "vfs.access"
  /\ last.res = Throw(createENOENT("access", last.arg.p))

C22_WitnessSuccess ==
  /\ last.op = "callback"
  /\ last.arg.op = "vfs.readFile"
  /\ last.res.ok
  /\ tickQueue # <<>>

(***************************************************************************)
(* C23  Directory listing matches the tree: after any sequence of addFile, *)
(* addDirectory and remove, readdirSync(d) on a directory d returns        *)
(* exactly the names n for which the path d/n resolves; with withFileTypes *)
(* each returned entry is tagged directory iff the path d/n resolves to a  *)
(* directory.  (A listing is the key set of the directory's name map, so   *)
(* no name occurs twice.)  Such a sequence leaves the instance as          *)
(* constructed, not activated; the statement is checked there and in       *)
(* every activation state except Mounted at the prefix '/'.                *)
(***************************************************************************)
C23_Names == {<<"a">>, <<"b">>, <<"c">>}

C23_Child(d, n) ==
  LET dir == normalizePath(d) IN
  IF dir = <<"/">> THEN dir \o n ELSE dir \o <<"/">> \o n

C23_Resolving(v, d) == {n \in C23_Names : resolveEntry(v, C23_Child(d, n)) # Null}

C23_ListingMatchesTree ==
  (last.op = "vfs.readdirSync" /\ last.res.ok /\ kMountPoint[last.v] # <<"/">>) =>
    LET listing == last.res.val
        names == IF listing.t = "dirents" THEN {i.name : i \in listing.items}
                 ELSE listing.items
    IN /\ names = C23_Resolving(last.v, last.arg.p)
       /\ listing.t = "dirents" <=> last.arg.options = "withFileTypes"
       /\ listing.t = "dirents" =>
            /\ Cardinality(listing.items) = Cardinality(names)
            /\ \A i \in listing.items :
                 i.dir = (resolveEntry(last.v, C23_Child(last.arg.p, i.name)).kind = "dir")

C23_Witness ==
  /\ last.op = "vfs.readdirSync"
  /\ last.arg.p = <<"/", "a">>
  /\ last.arg.options = "withFileTypes"
  /\ last.res.ok
  /\ last.res.val.items = {[name |-> <<"b">>, dir |-> FALSE]}
  /\ ~kMounted[last.v] /\ ~kOverlay[last.v]

C23_WitnessDirectory ==
  /\ last.op = "vfs.readdirSync"
  /\ last.arg.p = <<"/">>
  /\ last.arg.options = "withFileTypes"
  /\ last.res.ok
  /\ last.res.val.items = {[name |-> <<"a">>, dir |-> TRUE], [name |-> <<"b">>, dir |-> FALSE]}

(***************************************************************************)
(* C24  Tree well-formedness: after any sequence of addFile, addDirectory  *)
(* and remove, the root '/' resolves to a directory, which is the root of  *)
(* the tree; every resolvable non-root path has a parent path that         *)
(* resolves to a directory, and that directory holds the resolved entry    *)
(* under the path's last name; only directories have children; and a       *)
(* successful addFile leaves exactly the added file at its path, also      *)
(* where an entry was there before.  Such a sequence leaves the instance   *)
(* not activated; path resolution is checked for every instance that is    *)
(* not Mounted.                                                            *)
(***************************************************************************)
RECURSIVE C24_OnlyDirectoriesHaveChildren(_)
C24_OnlyDirectoriesHaveChildren(entry) ==
  IF entry.kind = "dir"
  THEN \A n \in DOMAIN entry.entries : C24_OnlyDirectoriesHaveChildren(entry.entries[n])
  ELSE entry.entries = NoEntries

C24_ParentHolds(v, p) ==
  LET normalized == normalizePath(p)
      parent == resolveEntry(v, getParentPath(normalized))
  IN /\ parent # Null
     /\ parent.kind = "dir"
     /\ getBaseName(normalized) \in DOMAIN parent.entries
     /\ parent.entries[getBaseName(normalized)] = resolveEntry(v, p)

C24_TreeWellFormed ==
  /\ \A v \in VFSIds :
       /\ kRoot[v].kind = "dir"
       /\ C24_OnlyDirectoriesHaveChildren(kRoot[v])
       /\ ~kMounted[v] =>
            /\ resolveEntry(v, <<"/">>) = kRoot[v]
            /\ \A p \in TreeQueryPaths :
                 (normalizePath(p) # <<"/">> /\ resolveEntry(v, p) # Null)
                   => C24_ParentHolds(v, p)
  /\ (last.op = "addFile" /\ last.res.ok)
       => EntryAt(kRoot[last.v], splitPath(normalizePath(last.arg.p)))
            = VirtualFile(last.arg.content)

C24_Witness ==
  /\ last.op = "addFile"
  /\ last.res.ok
  /\ last.arg.p = <<"/", "a", "/", "b">>
  /\ ~kMounted[last.v] /\ ~kOverlay[last.v]
  /\ resolveEntry(last.v, <<"/", "a">>).kind = "dir"
  /\ resolveEntry(last.v, <<"/", "a", "/", "b">>) = VirtualFile("other")

(***************************************************************************)
(* C25  The fallthrough flag decides the finality of misses: when the only *)
(* active instance is asked, through a synchronous hook, for a path it     *)
(* answers for (any path in Overlay mode, a path under the prefix when     *)
(* Mounted) and its tree does not hold the path, the original              *)
(* implementation is called iff the instance was constructed with          *)
(* fallthrough true.                                                       *)
(***************************************************************************)
C25_Miss(v) ==
  LET p == CallPath(last.op, last.arg) IN
  /\ InCall
  /\ last.op \in SyncEntryPoints
  /\ bindings[last.op] = "vfs"
  /\ p # <<>>
  /\ activeVFSList = <<v>>
  /\ kOverlay[v] \/ (kMounted[v] /\ isUnderMountPoint(p, kMountPoint[v]))
  /\ resolveEntry(v, p) = Null

C25_FallthroughDecidesMisses ==
  \A v \in VFSIds : C25_Miss(v) => ((last.res.origCalls # <<>>) <=> kFallthrough[v])

\* What the hooks do instead: the mode alone decides.
C25_ModeDecidesMisses ==
  \A v \in VFSIds : C25_Miss(v) => ((last.res.origCalls # <<>>) <=> ~kMounted[v])

C25_WitnessOverlayNoFallthrough ==
  /\ C25_Miss(TreeVFS)
  /\ kOverlay[TreeVFS]
  /\ ~kFallthrough[TreeVFS]
  /\ last.op = "statSync"
  /\ last.res.origCalls # <<>>

(***************************************************************************)
(* C26  An instance Mounted at the root prefix '/' owns every absolute     *)
(* path: shouldHandle(p) is true for '/' and for every normalized          *)
(* absolute path p below it, and p resolves to what the tree holds at the  *)
(* internal path p.                                                        *)
(***************************************************************************)
C26_RootMounted(v) == kMounted[v] /\ kMountPoint[v] = <<"/">>

C26_RootMountOwnsEveryPath ==
  \A v \in VFSIds : C26_RootMounted(v) =>
    \A p \in TreeAddPaths :
      /\ shouldHandle(v, p)
      /\ resolveEntry(v, p) = EntryAt(kRoot[v], splitPath(p))

\* What holds instead: the root path alone is owned and resolved.
C26_RootMountOwnsOnlyRoot ==
  \A v \in VFSIds : C26_RootMounted(v) =>
    \A p \in TreeAddPaths :
      /\ shouldHandle(v, p) <=> p = <<"/">>
      /\ resolveEntry(v, p) = IF p = <<"/">> THEN kRoot[v] ELSE Null

C26_WitnessRootMounted ==
  /\ C26_RootMounted(TreeVFS)
  /\ EntryAt(kRoot[TreeVFS], <<<<"a">>, <<"b">>>>) # Null
  /\ last.op = "vfs.existsSync"
  /\ last.arg.p = <<"/", "a", "/", "b">>
  /\ last.res = Return(Bool(FALSE))

(***************************************************************************)
(* C27  Packaged-asset singleton: every getSeaVfs call that returns,       *)
(* returns the cached value, and the cache, once it holds an instance,     *)
(* never changes; the call that finds the cache empty in a packaged        *)
(* application creates one instance, populates and mounts it; a call that  *)
(* finds an instance cached returns it whatever its options and creates,   *)
(* mounts and changes nothing; outside a packaged application every call   *)
(* returns null and creates nothing; hasSeaAssets returns false whenever   *)
(* the process is not packaged or has no asset.                            *)
(***************************************************************************)
C27_Singleton ==
  [][/\ cachedSeaVfs # NullVfs => cachedSeaVfs' = cachedSeaVfs
     /\ ~seaBinding.isSea => (cachedSeaVfs' = NullVfs /\ seaInstances' = <<>>)
     /\ last'.op = "getSeaVfs" =>
          /\ last'.res.ok => last'.res.val = VfsRef(cachedSeaVfs')
          /\ ~seaBinding.isSea => last'.res = Return([t |-> "null"])
          /\ cachedSeaVfs # NullVfs =>
               /\ last'.res = Return(VfsRef(cachedSeaVfs))
               /\ UNCHANGED <<kRoot, modes, registry, seaState>>
          /\ (cachedSeaVfs = NullVfs /\ last'.res.ok /\ seaBinding.isSea) =>
               /\ Len(seaInstances') = Len(seaInstances) + 1
               /\ cachedSeaVfs' = Len(seaInstances')
               /\ kMounted'[cachedSeaVfs']
     /\ last'.op = "hasSeaAssets" =>
          ((~seaBinding.isSea \/ seaBinding.keys = <<>>) => last'.res = Return(Bool(FALSE)))]_vars

C27_Witness ==
  /\ last.op = "getSeaVfs"
  /\ last.arg = [prefix |-> NoPrefix, moduleHooks |-> "false"]
  /\ cachedSeaVfs = 1
  /\ seaInstances = << [v |-> 1, options |-> [prefix |-> <<"/", "a">>, moduleHooks |-> "undefined"]] >>
  /\ kMountPoint[1] = <<"/", "a">>
  /\ last.res = Return(VfsRef(1))

C27_WitnessNotPackaged ==
  /\ last.op = "hasSeaAssets"
  /\ ~seaBinding.isSea
  /\ last.res = Return(Bool(FALSE))

(***************************************************************************)
(* C28  The moduleHooks option controls interception: an instance that     *)
(* createSeaVfs made with moduleHooks false answers no module-loader call  *)
(* (Module._stat, resolve hook, load hook).                                *)
(***************************************************************************)
C28_LoaderCalls == {"Module._stat", "resolve", "load"}

C28_MadeWithoutHooks(v) ==
  \E i \in 1..Len(seaInstances) :
    seaInstances[i].v = v /\ ~SeaModuleHooks(seaInstances[i].options)

C28_ModuleHooksOptionControlsInterception ==
  (InCall /\ last.op \in C28_LoaderCalls) =>
    ~(last.res.kind = "vfs" /\ C28_MadeWithoutHooks(last.res.by))

\* What holds instead: mounting the instance installs the hooks whatever the option.
C28_MountInstallsHooks ==
  \A i \in 1..Len(seaInstances) :
    kMounted[seaInstances[i].v] => (hooksInstalled /\ Active(seaInstances[i].v))

C28_WitnessAnswered ==
  /\ InCall
  /\ last.op = "Module._stat"
  /\ last.res.kind = "vfs"
  /\ last.res.val = Code(0)
  /\ C28_MadeWithoutHooks(last.res.by)
  /\ Len(seaInstances) = 1

(***************************************************************************)
(* C29  Path normalization is idempotent: for every path p that            *)
(* normalizePath returns, normalizePath(p) = p, and p has no trailing      *)
(* separator unless it is the root.                                        *)
(***************************************************************************)
C29_Root(sep) == IF sep = "\\" THEN <<"C", ":", "/">> ELSE <<"/">>

C29_NormalizeIdempotent ==
  last.op = "normalizePath" =>
    LET normalized == last.res.val.path IN
    /\ normalizePathOn(last.arg.sep, normalized) = normalized
    /\ EndsWith(normalized, <<"/">>) => normalized = C29_Root(last.arg.sep)

\* What holds: the same on a host whose separator is '/'.
C29_NormalizeIdempotentPosix ==
  (last.op = "normalizePath" /\ last.arg.sep = "/") =>
    LET normalized == last.res.val.path IN
    /\ normalized = normalizePath(last.arg.p)
    /\ normalizePath(normalized) = normalized
    /\ EndsWith(normalized, <<"/">>) => normalized = <<"/">>

C29_WitnessDriveRoot ==
  /\ last.op = "normalizePath"
  /\ last.arg.sep = "\\"
  /\ last.arg.p = <<"C", ":">>
  /\ last.res.val.path = <<"C", ":", "/", "a">>

(***************************************************************************)
(* C30  HTTP serve error responses: when the handler throws, rejects or    *)
(* returns a value that is not a Response, exactly one error response is   *)
(* written for the request, whole: the Response that onError returned or   *)
(* resolved to, and the default 500 when there is no onError or it throws  *)
(* or rejects; and the server emits 'error' once, with the handler's       *)
(* error (the invalid-return-value error when the handler returned a       *)
(* value that is not a Response).                                          *)
(***************************************************************************)
C30_HandlerFails(handler) ==
  handler.kind \in {"throws", "rejects"}
    \/ (handler.kind \in {"returns", "resolves"} /\ handler.value.t # "Response")

C30_ExpectedStatus(onError) ==
  IF onError.kind \in {"returns", "resolves"} /\ onError.value.t = "Response"
  THEN onError.value.status
  ELSE "500"

C30_ExpectedError(handler) ==
  IF handler.kind \in {"throws", "rejects"} THEN handler.value ELSE InvalidArgType

C30_ErrorResponse(call) ==
  LET written == call.res.val.written IN
  /\ Len(written) = 1
  /\ written[1].complete
  /\ written[1].status = C30_ExpectedStatus(call.arg.onError)
  /\ call.res.val.emitted = <<C30_ExpectedError(call.arg.handler)>>

C30_OneErrorResponse ==
  (last.op = "invokeHandler" /\ C30_HandlerFails(last.arg.handler))
    => C30_ErrorResponse(last)

\* What holds: the same when onError, if supplied, returns a Response or fails.
C30_OneErrorResponseUnlessOnErrorReturnsOther ==
  (/\ last.op = "invokeHandler"
   /\ C30_HandlerFails(last.arg.handler)
   /\ ~(last.arg.onError.kind = "returns" /\ last.arg.onError.value.t # "Response"))
    => C30_ErrorResponse(last)

C30_WitnessNoResponse ==
  /\ last.op = "invokeHandler"
  /\ last.arg.handler = Does("throws", "HandlerError")
  /\ last.arg.onError = Does("returns", UndefinedValue)
  /\ last.res.val.written = <<>>
  /\ connection.emitted = <<"HandlerError">>

(***************************************************************************)
(* C31  HTTP serve keep-alive sequencing: on one connection the handler    *)
(* is called once per request, and the requests are processed one at a     *)
(* time in arrival order: the handler of request n+1 is not called, and    *)
(* nothing of response n+1 is written, before response n is written; and   *)
(* right after the response to a request without keep-alive the socket is  *)
(* ended.                                                                  *)
(***************************************************************************)
C31_Before(e, id, i) ==
  \E j \in 1..(i - 1) : pipeline.log[j].e = e /\ pipeline.log[j].id = id

C31_Sequenced ==
  LET log == pipeline.log IN
  /\ \A i, j \in 1..Len(log) :
       (log[i].e = "handler" /\ log[j].e = "handler" /\ log[i].id = log[j].id) => i = j
  /\ \A i \in 1..Len(log) :
       (log[i].e \in {"handler", "response"} /\ log[i].id > 1)
         => C31_Before("response", log[i].id - 1, i)
  /\ \A i \in 1..Len(log) :
       (log[i].e = "response" /\ ~pipeline.requests[log[i].id].request.keepAlive)
         => (i < Len(log) /\ log[i + 1].e = "end")

C31_OneAtATime == C31_Sequenced

\* What holds: the same on a connection whose requests have no body stream.
C31_OneAtATimeWithoutBodies ==
  (\A id \in 1..Len(pipeline.requests) :
     ~HasBodyStream(pipeline.requests[id].request.method))
    => C31_Sequenced

C31_WitnessOverlap ==
  /\ Len(pipeline.log) = 2
  /\ pipeline.log[1] = [e |-> "handler", id |-> 1]
  /\ pipeline.log[2] = [e |-> "handler", id |-> 2]
  /\ ~pipeline.requests[1].responded

C31_WitnessTwoInOrder ==
  /\ Len(pipeline.requests) = 2
  /\ \A id \in 1..2 : pipeline.requests[id].request.method = "GET"
                      /\ pipeline.requests[id].responded

(***************************************************************************)
(* C40  HTTP serve honours the Connection header it sends: after a         *)
(* response that it wrote with 'Connection: close' (every error response,  *)
(* every response to a request without keep-alive) the server ends the     *)
(* socket and calls the handler for no further request of the connection;  *)
(* a response after which the socket stays open was written with           *)
(* 'Connection: keep-alive'.                                               *)
(***************************************************************************)
C40_SaysClose(event) ==
  /\ event.e = "response"
  /\ event.written # <<>>
  /\ ~event.written[1].keepAlive

C40_Closes(i) ==
  LET log == pipeline.log IN
  /\ i < Len(log)
  /\ log[i + 1].e = "end"
  /\ \A j \in (i + 1)..Len(log) : log[j].e # "handler"

C40_HonoursConnectionHeader ==
  \A i \in 1..Len(pipeline.log) :
    pipeline.log[i].e = "response" => (C40_SaysClose(pipeline.log[i]) <=> C40_Closes(i))

\* What holds: the socket is ended as the request asked, whatever was written,
\* on a connection whose requests have no body stream.
C40_ClosesAsRequested ==
  (\A id \in 1..Len(pipeline.requests) :
     ~HasBodyStream(pipeline.requests[id].request.method))
    => \A i \in 1..Len(pipeline.log) :
         pipeline.log[i].e = "response"
           => (~pipeline.requests[pipeline.log[i].id].request.keepAlive <=> C40_Closes(i))

C40_WitnessCloseThenNextRequest ==
  /\ Len(pipeline.log) = 3
  /\ C40_SaysClose(pipeline.log[2])
  /\ pipeline.log[3] = [e |-> "handler", id |-> 2]
  /\ pipeline.requests[1].request.method = "GET"

(***************************************************************************)
(* C32  addDirectory at the root: addDirectory('/', populate) with a       *)
(* populate callback replaces the root directory, so that every path that  *)
(* resolved under the old root resolves afterwards only if the callback    *)
(* adds it; addDirectory('/') without a callback leaves the whole tree as  *)
(* it was; neither call throws or changes the activation state or the      *)
(* registry.                                                               *)
(***************************************************************************)
C32_AtRoot(call) ==
  call.op = "addDirectory" /\ splitPath(normalizePath(call.arg.p)) = <<>>

C32_AddDirectoryAtRoot ==
  [][C32_AtRoot(last') =>
       /\ last'.res.ok
       /\ UNCHANGED <<modes, registry>>
       /\ \A u \in VFSIds \ {last'.v} : kRoot'[u] = kRoot[u]
       /\ IF last'.arg.populate.given
          THEN /\ kRoot'[last'.v] = NewDirectory(last'.arg.populate)
               /\ \A q \in ReplaceAddPaths :
                    WalkSegments(kRoot'[last'.v], splitPath(q)) # Null
                      => (Len(splitPath(q)) = 1
                          /\ splitPath(q)[1] \in last'.arg.populate.names)
          ELSE kRoot'[last'.v] = kRoot[last'.v]]_vars

C32_Witness ==
  /\ C32_AtRoot(last)
  /\ last.arg.populate = PopulateAdding({})
  /\ kRoot[TreeVFS] = VirtualDirectory(NoEntries)
  /\ kMounted[TreeVFS]

C32_WitnessNoPopulate ==
  /\ C32_AtRoot(last)
  /\ last.arg.populate = NoPopulate
  /\ WalkSegments(kRoot[TreeVFS], splitPath(<<"/", "a", "/", "b">>)) # Null

(***************************************************************************)
(* C33  Overwriting a directory drops its subtree: addFile(p, ...) or      *)
(* addDirectory(p) at a path p where a directory exists does not throw     *)
(* and puts the new entry in the place of the old one; afterwards no       *)
(* former descendant of p resolves, and after addDirectory(p) without a    *)
(* populate callback the listing of p is empty.                            *)
(***************************************************************************)
C33_Segments(call) == splitPath(normalizePath(call.arg.p))

C33_NewEntry(call) ==
  IF call.op = "addFile" THEN VirtualFile(call.arg.content)
  ELSE NewDirectory(call.arg.populate)

C33_IsBelow(q, segments) ==
  /\ Len(splitPath(q)) > Len(segments)
  /\ SubSeq(splitPath(q), 1, Len(segments)) = segments

C33_OverwriteDropsSubtree ==
  [][(/\ last'.op \in {"addFile", "addDirectory"}
      /\ C33_Segments(last') # <<>>
      /\ isDirectory(WalkSegments(kRoot[last'.v], C33_Segments(last'))))
       => /\ last'.res.ok
          /\ WalkSegments(kRoot'[last'.v], C33_Segments(last')) = C33_NewEntry(last')
          /\ \A q \in ReplaceAddPaths :
               (/\ C33_IsBelow(q, C33_Segments(last'))
                /\ WalkSegments(kRoot[last'.v], splitPath(q)) # Null
                /\ WalkSegments(kRoot'[last'.v], splitPath(q)) # Null)
                 => (last'.op = "addDirectory" /\ last'.arg.populate.given)
          /\ (last'.op = "addDirectory" /\ ~last'.arg.populate.given)
               => Listing(WalkSegments(kRoot'[last'.v], C33_Segments(last')),
                          "none").items = {}]_vars

C33_Witness ==
  /\ last.op = "addDirectory"
  /\ last.arg.p = <<"/", "a">>
  /\ last.arg.populate = NoPopulate
  /\ last.res.ok
  /\ readdirSync(TreeVFS, <<"/", "a">>, "none") = Return(Listing(VirtualDirectory(NoEntries), "none"))
  /\ ~kMounted[TreeVFS]

C33_WitnessFile ==
  /\ last.op = "addFile"
  /\ last.arg.p = <<"/", "a">>
  /\ last.res.ok
  /\ kRoot[TreeVFS] = addEntry(VirtualDirectory(NoEntries), <<"a">>, VirtualFile("data"))

(***************************************************************************)
(* C34  realpath closure: for every external path p that resolves in an    *)
(* active instance, realpathSync(p) of that instance returns normalize(p)  *)
(* as it is, mount prefix included; the returned path is claimed by the    *)
(* same instance and resolves to the same entry, and its realpathSync is   *)
(* the same path again.  A hooked fs.realpathSync(p) that an instance      *)
(* answers returns that path, and is answered the same for it.             *)
(***************************************************************************)
C34_Real(p) == [t |-> "path", path |-> normalizePath(p)]

C34_ClosedIn(v, p) ==
  /\ realpathSync(v, p) = Return(C34_Real(p))
  /\ shouldHandle(v, normalizePath(p))
  /\ resolveEntry(v, normalizePath(p)) = resolveEntry(v, p)
  /\ realpathSync(v, normalizePath(p)) = realpathSync(v, p)

C34_RealpathClosure ==
  (last.op = "realpathSync" /\ last.arg.t = "string")
    => /\ \A v \in RoutedVFS :
            ((kMounted[v] \/ kOverlay[v]) /\ resolveEntry(v, last.arg.p) # Null)
              => C34_ClosedIn(v, last.arg.p)
       /\ last.res.kind = "vfs"
            => /\ last.res.val = C34_Real(last.arg.p)
               /\ LET again == vfsRealpathSync(activeVFSList,
                                               [last.arg EXCEPT !.p = last.res.val.path])
                  IN again.kind = "vfs" /\ again.by = last.res.by
                     /\ again.val = last.res.val

\* The same on a host whose path.sep is the backslash.
C34_RealpathClosureOnHost ==
  (/\ last.op = "vfs.realpathSync"
   /\ kMounted[last.v] \/ kOverlay[last.v]
   /\ resolveEntryOn(last.arg.sep, last.v, last.arg.p) # Null)
    => /\ last.res = Return([t |-> "path", path |-> normalizePathOn(last.arg.sep, last.arg.p)])
       /\ realpathSyncOn(last.arg.sep, last.v, last.res.val.path) = last.res

\* What holds on that host: the same for a path that does not normalize to
\* a bare drive.
C34_RealpathClosureBelowDrive ==
  (/\ last.op = "vfs.realpathSync"
   /\ kMounted[last.v] \/ kOverlay[last.v]
   /\ resolveEntryOn(last.arg.sep, last.v, last.arg.p) # Null
   /\ Len(normalizePathOn(last.arg.sep, last.arg.p)) > 2)
    => /\ last.res = Return([t |-> "path", path |-> normalizePathOn(last.arg.sep, last.arg.p)])
       /\ realpathSyncOn(last.arg.sep, last.v, last.res.val.path) = last.res

C34_WitnessDriveRoot ==
  /\ last.op = "vfs.realpathSync"
  /\ last.arg.p = <<"C", ":", "\\">>
  /\ kMountPoint[last.v] = <<"C", ":">>
  /\ resolveEntryOn(last.arg.sep, last.v, last.arg.p) = kRoot[last.v]
  /\ ~last.res.ok

C34_Witness ==
  /\ last.op = "realpathSync"
  /\ last.arg = StringArg(<<"/", "a", "/", "b", "/">>)
  /\ last.res.kind = "vfs"
  /\ kMounted[last.res.by]
  /\ kMountPoint[last.res.by] = <<"/", "a">>
  /\ last.res.val.path = <<"/", "a", "/", "b">>

(***************************************************************************)
(* C35  Activation calls do not touch the tree: mount, overlay and unmount *)
(* leave every tree as it was, whether they succeed or throw; unmount() on *)
(* an Unmounted instance does not throw and changes nothing; and a mount() *)
(* or overlay() that follows an unmount() of the same instance succeeds.   *)
(***************************************************************************)
C35_ActivationOps == {"mount", "overlay", "unmount"}

C35_ActivationLeavesTree ==
  [][last'.op \in C35_ActivationOps =>
       /\ kRoot' = kRoot
       /\ (last'.op = "unmount" /\ ~kMounted[last'.v] /\ ~kOverlay[last'.v])
            => (last'.res.ok /\ UNCHANGED <<modes, registry>>)
       /\ (last.op = "unmount" /\ last'.op \in {"mount", "overlay"} /\ last'.v = last.v)
            => (last'.res.ok /\ (kMounted'[last'.v] \/ kOverlay'[last'.v]))]_vars

C35_Witness ==
  /\ last.op = "unmount"
  /\ last.res.index # -1
  /\ WalkSegments(kRoot[TreeVFS], splitPath(<<"/", "a", "/", "b">>)) = VirtualFile("data")
  /\ ~kMounted[TreeVFS] /\ ~kOverlay[TreeVFS]

C35_WitnessUnmounted ==
  /\ last.op = "unmount"
  /\ last.res.index = -1
  /\ hooksInstalled
  /\ kRoot[TreeVFS] # VirtualDirectory(NoEntries)

(***************************************************************************)
(* C36  Priority follows the most recent activation: unregistering an      *)
(* instance (directly or by unmount) removes that instance alone from the  *)
(* active list and keeps the others in their order; an instance that is    *)
(* not in the list and is activated or registered is put at its end,       *)
(* behind every instance that stayed registered, whatever place it had     *)
(* before.                                                                 *)
(***************************************************************************)
C36_Without(list, v) == SelectSeq(list, LAMBDA u : u # v)

C36_IsIn(list, v) == \E i \in 1..Len(list) : list[i] = v

C36_PriorityFollowsActivation ==
  [][/\ last'.op \in {"unmount", "unregisterVFS"}
          => activeVFSList' = C36_Without(activeVFSList, last'.v)
     /\ (last'.op \in {"mount", "overlay", "registerVFS"} /\ last'.res.ok
           /\ ~C36_IsIn(activeVFSList, last'.v))
          => /\ activeVFSList' = Append(activeVFSList, last'.v)
             /\ \A i \in 1..Len(activeVFSList) :
                  activeVFSList'[i] = activeVFSList[i] /\ i < Len(activeVFSList')]_vars

C36_Witness ==
  /\ last.op = "mount"
  /\ last.v = 1
  /\ last.res.ok
  /\ activeVFSList = <<2, 3, 1>>

C36_WitnessRemovedFromMiddle ==
  /\ last.op = "unmount"
  /\ last.v = 2
  /\ last.res.index = 1
  /\ activeVFSList = <<3, 1>>

(***************************************************************************)
(* C37  A directory in an earlier instance ends the search: when the       *)
(* search of fs.readFileSync, of the resolve hook or of the load hook      *)
(* comes to an active instance that claims the path and holds a directory  *)
(* there, the call is handed to the original implementation or the next    *)
(* hook with its arguments, and no instance registered later is            *)
(* consulted, even one that holds a file at the path.                      *)
(***************************************************************************)
C37_Ops == {"readFileSync", "resolve", "load"}

C37_Path(call) ==
  normalizePath(IF call.op = "readFileSync" THEN call.arg.p
                ELSE IF call.op = "resolve" THEN ResolveCheckPath(call.arg)
                ELSE fileURLToPath(call.arg.p))

C37_Holds(v, path) == shouldHandle(v, path) /\ existsSync(v, path)

\* The search passes instance v without an answer and without throwing.
C37_Passes(op, v, path) ==
  /\ ~C37_Holds(v, path)
  /\ op = "readFileSync" => ~(shouldHandle(v, path) /\ isMounted(v))

C37_DirectoryEndsSearch ==
  (last.op \in C37_Ops /\ bindings[last.op] = "vfs")
    => \A i \in 1..Len(activeVFSList) :
         (/\ C37_Holds(activeVFSList[i], C37_Path(last))
          /\ isDirectory(resolveEntry(activeVFSList[i], C37_Path(last)))
          /\ \A j \in 1..(i - 1) : C37_Passes(last.op, activeVFSList[j], C37_Path(last)))
           => /\ last.res.kind = "orig"
              /\ last.res.consulted = SubSeq(activeVFSList, 1, i)
              /\ last.res.origCalls = <<last.arg>>

C37_Witness ==
  /\ last.op = "readFileSync"
  /\ activeVFSList = <<1, 2>>
  /\ kOverlay[1] /\ kOverlay[2]
  /\ isDirectory(resolveEntry(1, <<"/", "a">>))
  /\ resolveEntry(2, <<"/", "a">>) = VirtualFile("data")
  /\ last.res.kind = "orig"
  /\ last.res.consulted = <<1>>

C37_WitnessLoad ==
  /\ last.op = "load"
  /\ activeVFSList = <<2, 1>>
  /\ kMounted[2]
  /\ resolveEntry(1, <<"/", "a">>) = VirtualFile("data")
  /\ last.res.kind = "orig"
  /\ last.res.consulted = <<2>>

C37_WitnessResolve ==
  /\ last.op = "resolve"
  /\ Len(activeVFSList) = 2
  /\ resolveEntry(activeVFSList[2], <<"/", "a">>) = VirtualFile("data")
  /\ last.res.kind = "orig"
  /\ Len(last.res.consulted) = 1

(***************************************************************************)
(* C38  An Overlay instance always claims the root: in every state an      *)
(* Overlay instance, also one with an empty tree, has shouldHandle('/')    *)
(* true, so a hooked fs.statSync('/'), fs.lstatSync('/'),                  *)
(* fs.realpathSync('/') or Module._stat('/') is answered by the first      *)
(* instance of the list that claims the path and never reaches the         *)
(* original implementation; the same holds for a directory that an         *)
(* Overlay instance holds as the ancestor of an added file.                *)
(***************************************************************************)
C38_Ops == {"statSync", "lstatSync", "realpathSync", "Module._stat"}

C38_HeldByOverlay(path) ==
  \E v \in RoutedVFS : kOverlay[v] /\ isDirectory(resolveEntry(v, path))

C38_FirstClaiming(path) ==
  activeVFSList[CHOOSE i \in 1..Len(activeVFSList) :
                  /\ shouldHandle(activeVFSList[i], path)
                  /\ \A j \in 1..(i - 1) : ~shouldHandle(activeVFSList[j], path)]

C38_WitnessAncestor ==
  /\ last.op = "Module._stat"
  /\ last.arg = StringArg(<<"/", "a">>)
  /\ last.res.kind = "vfs"
  /\ kOverlay[last.res.by]
  /\ resolveEntry(last.res.by, <<"/", "a", "/", "b">>) = VirtualFile("data")


(***************************************************************************)
(* The callback forms called with callbacks that return or throw, on an    *)
(* instance whose files have fixed content or a provider that rejects.     *)
(***************************************************************************)
CallbackContents == {"data", Rejecting}

NextCallback ==
  \/ \E p \in AsyncAddPaths, c \in CallbackContents : AddFile(TreeVFS, p, c)
  \/ \E p \in AsyncAddPaths : Remove(TreeVFS, p)
  \/ \E op \in CallbackOps, p \in AsyncQueryPaths, callback \in Callbacks :
       \E options \in TreeOptions(op) : InitiateWith(TreeVFS, op, p, options, callback)
  \/ \E i \in 1..MaxPending : Deliver(i)
  \/ CallReturns

SpecCallback == Init /\ [][NextCallback]_vars

(***************************************************************************)
(* C39  Exactly-once callback: for every call of callback-style readFile,  *)
(* stat, lstat, readdir, realpath or access, the callback is invoked       *)
(* exactly once, with either an error or a result, including when the      *)
(* content provider rejects and when the callback itself throws during its *)
(* invocation.  Stated on the turn that settles a call: the invocations of *)
(* its callback are exactly one, with the outcome of the call.             *)
(***************************************************************************)
C39_Settled == last.op = "callback"

C39_Once == last.invocations = <<last.res>>

C39_ExactlyOnce == C39_Settled => C39_Once

\* The callback of readFile throws when it is invoked with the content.
C39_ThrowsOnContent ==
  /\ last.arg.op = "vfs.readFile"
  /\ last.arg.callback = "throws"
  /\ last.res.ok

\* Every other call invokes its callback exactly once; that one invokes it
\* a second time, with what the callback threw.
C39_ExactlyOnceUnlessThrownOnContent ==
  C39_Settled =>
    IF C39_ThrowsOnContent
    THEN last.invocations = <<last.res, Throw(CallbackError)>>
    ELSE C39_Once

C39_WitnessTwice ==
  /\ C39_Settled
  /\ C39_ThrowsOnContent
  /\ Len(last.invocations) = 2

C39_WitnessProviderRejects ==
  /\ C39_Settled
  /\ last.arg.op = "vfs.readFile"
  /\ last.res = Throw(ProviderError)
  /\ last.invocations = <<Throw(ProviderError)>>

C39_WitnessThrowsOnTick ==
  /\ C39_Settled
  /\ last.arg.op = "vfs.stat"
  /\ last.arg.callback = "throws"
  /\ last.res.ok
  /\ Len(last.invocations) = 1

====
